---- MODULE Spec2Model ----
(***************************************************************************)
(* Model of distributed_traffic_sim.py: the master's registry and          *)
(* aggregate state, the request handlers of the master (register_worker,   *)
(* traffic_update, and simulate_step, which the shared Flask app also      *)
(* serves on the master), the master_simulation_loop thread, and the       *)
(* worker's simulate_step handler.  Handlers run thread-per-request; the   *)
(* statements of one handler that touch shared data are separate steps,    *)
(* so that every interleaving of the threads is a behaviour of the model.  *)
(***************************************************************************)
EXTENDS Integers, Sequences, FiniteSets, TLC

----------------------------------------------------------------------------
(* Bounds of the model *)

\* the master loop is explored up to this step number
MaxStep == 2
\* a zone's car count is explored from MIN_CARS to MIN_CARS + MaxExtraCars
MaxExtraCars == 1
\* step calls that timed out at the master and are still running at a worker
MaxLinger == 1
\* registration answers lost on the way back to the workers
MaxLostAcks == 1
\* requests handled by the master that no worker of the run sent
MaxForeign == 1
\* SpecHist: the workers answer step commands up to this step number
HistLive == 1
\* the master loop of SpecHist is explored up to this step number
MaxHistStep == 151
\* the master loop of SpecGood is explored up to this step number
MaxGoodStep == 5
\* the master loop of SpecStream is explored up to this step number
MaxStreamStep == 2
\* the master loop of SpecRetry is explored up to this step number
MaxRetryStep == 1
\* SpecStale: the cycle in which a step call times out; one more cycle follows
StaleStep == 2
\* SpecReject: requests of clients handled by the master
MaxRequests == 2
\* simulate_step handlers of one worker that run at the same time
MaxHandlers == 2
\* SpecZone: the worker is sent the commands of the steps up to this one
MaxZoneStep == 46
\* SpecTick: the worker is sent the commands of the steps up to this one
MaxTickStep == 2
\* SpecTick: the clock is explored up to this second
MaxClock == 3
\* random.randint(0, 1000) of line 750 is explored from 0 to this number
MaxSuffix == 1
\* SpecTwin: the two workers are sent the commands of the steps up to this one
MaxTwinStep == 2
\* SpecTwin: a value of the random source is one of 0 .. MaxRaw
MaxRaw == 3

(* Program constants *)

\* collections.deque(maxlen=100)
HISTORY_MAXLEN == 100
\* len(expected_zones)
EXPECTED_ZONES == 4
\* seconds the master waits for the expected zones
initial_wait_timeout == 30
MAX_CARS_PER_ZONE == 80
\* registration attempts of a worker
WORKER_RETRIES == 10
\* pixels
ZONE_SIZE == 200
CAR_SIZE == 5
CAR_SPEED == 7
\* the count above which a tick may remove a car, and the least initial count
MIN_CARS == 20
\* the greatest initial count, line 790
MAX_INITIAL_CARS == 35
\* TrafficLight.cycle_time, seconds
cycle_time == 2
\* the calls of the random source in one tick: lines 741, 742, 750, 754, 756
DRAWS_PER_TICK == 5

----------------------------------------------------------------------------
(* Worker processes.  A worker process has its own worker_id (its pid), its *)
(* own URL, and the zone it was started for.  w1 and w2 are two processes   *)
(* started for the same zone.  w0 is a worker of an earlier run of the      *)
(* master: it registers with nobody in this run.                           *)

Workers == {"w1", "w2", "w3", "w4", "w5"}
Foreign == "w0"
Master == "master"
Processes == Workers \cup {Master}

ZoneOf(w) ==
    CASE w = "w1" -> "North"
      [] w = "w2" -> "North"
      [] w = "w3" -> "South"
      [] w = "w4" -> "East"
      [] w = "w5" -> "West"
      [] OTHER    -> "South"

Zones == {"North", "South", "East", "West"}

UrlOf(w) == <<"http", w>>
WorkerAt(url) == url[2]

VARIABLES
    \* ---- master process globals
    registered_workers,        \* dict zone -> record
    registered_keys,           \* the dict's keys in insertion order
    total_cars_in_sim,
    simulation_step,
    simulation_active,
    graph_data_history,        \* deque(maxlen=100) of <<step, total>>
    full_simulation_grid_data, \* dict zone -> zone data
    \* ---- master_simulation_loop thread
    pc,                        \* line the loop thread is about to execute
    wait_elapsed,              \* seconds slept in the startup wait
    pending,                   \* rest of list(registered_workers.items())
    sum_iter,                  \* the generator of the sum at line 694
    current_total_cars,
    \* ---- requests
    jobs,                      \* step commands and the reports they cause
    foreign_requests,          \* requests handled that no worker of this run sent
    \* ---- worker processes
    wstate,                    \* "down", "registering", "active", "exited"
    lost_acks,                 \* registration answers lost per worker
    retries,                   \* registration attempts left per worker
    vehicle,                   \* one Vehicle of a worker's worker_vehicles
    worker_detail,             \* the light, the clock and the vehicle ids of one worker
    twin,                      \* two worker processes that are given the same draws
    worker_vehicles,           \* len(worker_vehicles) per worker
    worker_step,               \* the worker process's simulation_step
    \* ---- history variables (not program state)
    appended,                  \* every sample ever appended to the deque
    cycle,                     \* what the current cycle did
    latest_registration,       \* zone -> the last register request handled
    aborted,                   \* the loop returned at line 670
    \* ---- stream_data: the locks and the generators of the subscribers
    graph_data_lock,           \* "free" or the thread that holds it
    full_simulation_grid_data_lock,
    sub                        \* subscriber -> the state of its generator

vars == <<registered_workers, registered_keys, total_cars_in_sim,
          simulation_step, simulation_active, graph_data_history,
          full_simulation_grid_data, pc, wait_elapsed, pending, sum_iter,
          current_total_cars, jobs, foreign_requests, wstate, lost_acks, retries,
          worker_vehicles, worker_step, appended, cycle, latest_registration, aborted,
          graph_data_lock, full_simulation_grid_data_lock, sub, vehicle, worker_detail, twin>>

masterData == <<registered_workers, registered_keys, total_cars_in_sim,
                full_simulation_grid_data>>
loopVars == <<pc, wait_elapsed, pending, sum_iter, current_total_cars>>
workerVars == <<wstate, lost_acks, retries, worker_vehicles, worker_step>>
subVars == <<graph_data_lock, full_simulation_grid_data_lock, sub>>

----------------------------------------------------------------------------
(* Data *)

\* 'current_zone_data' of a fresh record, line 600
EmptyZoneData == [vehicles |-> 0, traffic_light |-> "None"]

\* The payload of a report: the vehicle list is kept as its length, the
\* light state as the tick (worker, step) that produced it.
ZoneData(w, step, n) == [vehicles |-> n, traffic_light |-> <<w, step>>]

\* time.time() read by a handler is kept as the request that read it:
\* <<w, 0>> a register request of w, <<w, s>> the report of w for step s.
NewRecord(w) ==
    [url               |-> UrlOf(w),
     last_seen         |-> <<w, 0>>,
     car_count         |-> 0,
     id                |-> w,
     current_zone_data |-> EmptyZoneData]

\* the empty dict
EmptyDict == [x \in {} |-> 0]

\* A Vehicle is kept as its direction and its coordinate on the axis of its
\* motion (x for E and W, y for S and N); move() leaves the other
\* coordinate alone.  'last' (not program state) tells what was done to it
\* last.
NoVehicle == [direction |-> "none", pos |-> 0, last |-> "none"]
Directions == {"E", "W", "N", "S"}

\* current_zone_bounds, line 720: the bounds on either axis
BoundMin == 0
BoundMax == ZONE_SIZE

\* Two worker processes of one zone, for the comparison of their ticks:
\* each has its worker_vehicles (a Vehicle is its id, its direction and its
\* coordinate on the axis of its motion), its simulation_step and its clock.
TwinWorkers == {"w1", "w2"}
NoTwin == [started |-> FALSE,
           commanded |-> 0,
           proc |-> [w \in TwinWorkers |->
                        [worker_vehicles |-> <<>>,
                         simulation_step |-> 0,
                         light |-> [state |-> "red", last_change_time |-> 0],
                         now |-> 0]]]

\* the worker process whose light and vehicle ids are kept in worker_detail
TheWorker == "w3"

\* the browsers that may open /stream_data
Subs == {"s1", "s2"}

\* a generator of stream_data: where it is, its locals that are live, and
\* (not program state) the elements its subscriber has received
\* The elements are kept whole where 'kept' says so, else as their type and
\* their step only.
NoPayload == [type |-> "none", step |-> 0]
NoStream == [pc |-> "idle", last_step_sent |-> -1, step |-> 0, total |-> 0,
             status |-> "none", num_workers |-> 0,
             details |-> EmptyDict, payload |-> NoPayload, received |-> <<>>,
             kept |-> FALSE]

NoCycle == [step |-> 0, snapshot |-> {}, commanded_zones |-> {}, failed |-> {}]
NoIter == [used |-> 0, i |-> 0, acc |-> 0]

RECURSIVE SumCounts(_, _)
SumCounts(reg, zs) ==
    IF zs = {} THEN 0
    ELSE LET z == CHOOSE x \in zs : TRUE
         IN reg[z].car_count + SumCounts(reg, zs \ {z})

\* sum(data['car_count'] for data in registered_workers.values())
TotalOf(reg) == SumCounts(reg, DOMAIN reg)

----------------------------------------------------------------------------
(* Initial state: module globals, lines 60-74 and 718-720; the worker      *)
(* processes that are started each hold their initial cars (line 790).     *)

InitMasterWith(kept) ==
    /\ registered_workers = EmptyDict
    /\ registered_keys = <<>>
    /\ total_cars_in_sim = 0
    /\ simulation_step = 0
    /\ simulation_active = TRUE
    /\ graph_data_history = <<>>
    /\ full_simulation_grid_data = EmptyDict
    /\ pc = "l661"
    /\ wait_elapsed = 0
    /\ pending = <<>>
    /\ sum_iter = NoIter
    /\ current_total_cars = 0
    /\ jobs = EmptyDict
    /\ foreign_requests = 0
    /\ appended = <<>>
    /\ cycle = NoCycle
    /\ latest_registration = EmptyDict
    /\ aborted = FALSE
    /\ graph_data_lock = "free"
    /\ full_simulation_grid_data_lock = "free"
    /\ sub = [s \in Subs |-> [NoStream EXCEPT !.kept = kept]]

InitMaster == InitMasterWith(FALSE)

\* lines 790-803 of worker_startup: the ids of the initial vehicles, and
\* the light, red since the process started.  The ids of worker_vehicles
\* are kept where 'kept' says so, else the list is kept as its length only.
InitialIds(w, initial_car_count) ==
    [i \in 1 .. initial_car_count |-> <<"car", ZoneOf(w), i - 1>>]

InitialDetail(kept, initial_car_count) ==
    [kept      |-> kept,
     light     |-> [state |-> "red", last_change_time |-> 0],
     now       |-> 0,
     ids       |-> IF kept THEN InitialIds(TheWorker, initial_car_count) ELSE <<>>,
     commanded |-> 0]

InitWorkersWith(started, counts, kept) ==
    /\ wstate = [w \in Workers |-> IF w \in started THEN "registering" ELSE "down"]
    /\ lost_acks = [w \in Workers |-> 0]
    /\ retries = [w \in Workers |-> WORKER_RETRIES]
    /\ vehicle = NoVehicle
    /\ twin = NoTwin
    /\ \E initial_car_count \in counts :
          /\ worker_vehicles =
                [p \in Processes |-> IF p \in started THEN initial_car_count ELSE 0]
          /\ worker_detail = InitialDetail(kept, initial_car_count)
    /\ worker_step = [w \in Workers |-> 0]

InitWorkers(started) == InitWorkersWith(started, {MIN_CARS}, FALSE)

\* The worker processes started in a run of Spec: two processes for one
\* zone, or two zones.  A process that is started need never register.
Started == {{"w1", "w2"}, {"w1", "w3"}}

Init ==
    /\ InitMaster
    /\ \E started \in Started : InitWorkers(started)

----------------------------------------------------------------------------
(* Faulty variants of operators of the model.  A property that is checked  *)
(* below must fail when the operator it is about is replaced with its      *)
(* variant.                                                                *)

\* a deque that never evicts
DequeAppendUnbounded(h, x) == Append(h, x)

\* a dict that appends the key on every store
KeysAfterStoreAlways(keys, present, k) == Append(keys, k)

\* a wait that ends with the first registered worker
WaitOverAnyWorker(n, elapsed) == n >= 1 \/ elapsed >= initial_wait_timeout

\* a handler that skips the store of the count, line 622
WriteCountSkipped(id) ==
    /\ id \in DOMAIN jobs
    /\ jobs[id].st = "l622"
    /\ jobs' = [jobs EXCEPT ![id].st = "l623"]
    /\ UNCHANGED <<subVars, vehicle, worker_detail, twin, registered_workers, registered_keys, total_cars_in_sim,
                   full_simulation_grid_data, simulation_step, simulation_active,
                   graph_data_history, pc, wait_elapsed, pending, sum_iter,
                   current_total_cars, foreign_requests, wstate, lost_acks, retries,
                   worker_vehicles, worker_step, appended, cycle,
                   latest_registration, aborted>>

\* a payload that is never tagged as the first
PayloadTypeUpdate(last_step_sent) == "update"

\* a generator that sends on every pass
ShouldSendAlways(current_simulation_step, last_step_sent) == TRUE

\* a generator that keeps the locks after its reads
ReadDetailsKeepsLocks(s) ==
    /\ sub[s].pc = "l550"
    /\ sub' = [sub EXCEPT ![s].pc = "l559"]
    /\ UNCHANGED <<registered_workers, registered_keys, total_cars_in_sim,
                   full_simulation_grid_data, simulation_step, simulation_active,
                   graph_data_history, pc, wait_elapsed, pending, sum_iter,
                   current_total_cars, jobs, foreign_requests, wstate, lost_acks, retries,
                   worker_vehicles, worker_step, appended, cycle,
                   latest_registration, aborted, graph_data_lock,
                   full_simulation_grid_data_lock, vehicle, worker_detail, twin>>

\* a generator that takes the lock of the zone map first
AcquireGridLockFirst(s) ==
    /\ sub[s].pc = "l543"
    /\ full_simulation_grid_data_lock = "free"
    /\ full_simulation_grid_data_lock' = s
    /\ sub' = [sub EXCEPT ![s].pc = "l543_grid"]
    /\ UNCHANGED <<registered_workers, registered_keys, total_cars_in_sim,
                   full_simulation_grid_data, simulation_step, simulation_active,
                   graph_data_history, pc, wait_elapsed, pending, sum_iter,
                   current_total_cars, jobs, foreign_requests, wstate, lost_acks, retries,
                   worker_vehicles, worker_step, appended, cycle,
                   latest_registration, aborted, graph_data_lock,
                   vehicle, worker_detail, twin>>

\* a worker that goes on trying
AfterFailedAttemptForever(left) == "registering"

\* a handler that gives up its tick when the report cannot be sent
WorkerTickUnlessLost(id, outcomes) ==
    /\ id \in DOMAIN jobs
    /\ jobs[id].st = "l730"
    /\ \E sent \in outcomes :
          /\ jobs' = [jobs EXCEPT ![id].st = IF sent THEN "l620" ELSE "lost",
                                  ![id].n = worker_vehicles[jobs[id].w]]
          /\ worker_step' = IF sent
                              THEN [worker_step EXCEPT ![jobs[id].w] = jobs[id].step]
                              ELSE worker_step
    /\ UNCHANGED <<registered_workers, registered_keys, total_cars_in_sim,
                   full_simulation_grid_data, simulation_step, simulation_active,
                   graph_data_history, pc, wait_elapsed, pending, sum_iter,
                   current_total_cars, foreign_requests, wstate, lost_acks,
                   retries, worker_vehicles, appended, cycle,
                   latest_registration, aborted, graph_data_lock,
                   full_simulation_grid_data_lock, sub, vehicle, worker_detail, twin>>

\* a vehicle that turns back at the edge
MoveReflected(pos, direction) ==
    IF direction \in {"E", "S"}
      THEN IF pos + CAR_SPEED > BoundMax + CAR_SIZE THEN pos - CAR_SPEED ELSE pos + CAR_SPEED
      ELSE IF pos - CAR_SPEED < BoundMin - CAR_SIZE THEN pos + CAR_SPEED ELSE pos - CAR_SPEED

\* a loop that counts in twos
NextStepTwice(step) == step + 2

\* a check of the zone only
UpdateAcceptedAnyId(reg, zone, worker_id) == zone \in DOMAIN reg

----------------------------------------------------------------------------
(* Dictionaries *)

Put(f, k, v) == [x \in (DOMAIN f) \cup {k} |-> IF x = k THEN v ELSE f[x]]
Drop(f, k) == [x \in (DOMAIN f) \ {k} |-> f[x]]

\* a dict keeps its keys in insertion order; storing to a key it holds
\* keeps the key's place
KeysAfterStore(keys, present, k) == IF k \in present THEN keys ELSE Append(keys, k)

\* deque(maxlen=100).append
DequeAppend(h, x) ==
    IF Len(h) < HISTORY_MAXLEN THEN Append(h, x) ELSE Append(Tail(h), x)

----------------------------------------------------------------------------
(* register_worker, lines 584-603.  The request of worker process w carries *)
(* its zone, its URL and its worker_id.  The answer reaches the worker      *)
(* (which then starts serving step commands, line 859) or is lost, and the  *)
(* worker sends the request again (lines 831-852).                          *)

RegisteredRecord(w) == NewRecord(w)

\* lines 831, 849-855 of worker_startup: after a failed attempt the loop
\* goes on while retries > 0, else the process exits with status 1
AfterFailedAttempt(left) == IF left > 0 THEN "registering" ELSE "exited"

LostAcks == lost_acks["w1"] + lost_acks["w2"] + lost_acks["w3"]
            + lost_acks["w4"] + lost_acks["w5"]

register_worker(w, answered) ==
    /\ wstate[w] = "registering"
    /\ registered_workers' = Put(registered_workers, ZoneOf(w), RegisteredRecord(w))
    /\ registered_keys' =
          KeysAfterStore(registered_keys, DOMAIN registered_workers, ZoneOf(w))
    /\ latest_registration' = Put(latest_registration, ZoneOf(w), <<UrlOf(w), w>>)
    /\ IF answered
          THEN /\ wstate' = [wstate EXCEPT ![w] = "active"]
               /\ UNCHANGED <<lost_acks, retries>>
          ELSE /\ LostAcks < MaxLostAcks
               /\ lost_acks' = [lost_acks EXCEPT ![w] = @ + 1]
               /\ retries' = [retries EXCEPT ![w] = @ - 1]
               /\ wstate' = [wstate EXCEPT ![w] = AfterFailedAttempt(retries[w] - 1)]
    /\ UNCHANGED <<subVars, vehicle, worker_detail, twin, total_cars_in_sim, simulation_step, simulation_active,
                   graph_data_history, full_simulation_grid_data, loopVars,
                   jobs, foreign_requests, worker_vehicles, worker_step, appended,
                   cycle, aborted>>

\* lines 831-852 of worker_startup: an attempt that does not reach the
\* master (connection refused, timeout); the worker sleeps 2 seconds and
\* has one attempt less
RegistrationFails(w) ==
    /\ wstate[w] = "registering"
    /\ retries' = [retries EXCEPT ![w] = @ - 1]
    /\ wstate' = [wstate EXCEPT ![w] = AfterFailedAttempt(retries[w] - 1)]
    /\ UNCHANGED <<subVars, vehicle, worker_detail, twin, masterData, simulation_step, simulation_active,
                   graph_data_history, loopVars, jobs, foreign_requests,
                   lost_acks, worker_vehicles, worker_step, appended, cycle,
                   latest_registration, aborted>>

----------------------------------------------------------------------------
(* master_simulation_loop, lines 647-713 *)

\* lines 661-664: the wait ends when the expected zones are registered or
\* the timeout has passed.  wait_elapsed counts the sleeps of line 664;
\* each lasts at least a second, so after k sleeps the clock has advanced
\* by k seconds or a little more.
WaitOver(n, elapsed) == n >= EXPECTED_ZONES \/ elapsed >= initial_wait_timeout

\* lines 661-665, one pass of the wait loop
WaitForWorkers ==
    /\ pc = "l661"
    /\ IF WaitOver(Len(registered_keys), wait_elapsed)
          THEN /\ pc' = "l667"
               /\ UNCHANGED wait_elapsed
          ELSE /\ wait_elapsed' = wait_elapsed + 1
               /\ pc' = "l661"
    /\ UNCHANGED <<subVars, vehicle, worker_detail, twin, masterData, simulation_step, simulation_active,
                   graph_data_history, pending, sum_iter, current_total_cars,
                   jobs, foreign_requests, workerVars, appended, cycle,
                   latest_registration, aborted>>

\* lines 667-672; start_wait_time is not read after the wait
NoWorkers(reg) == DOMAIN reg = {}

StartOrExit ==
    /\ pc = "l667"
    /\ IF NoWorkers(registered_workers)
          THEN /\ simulation_active' = FALSE
               /\ aborted' = TRUE
               /\ pc' = "done"
          ELSE /\ pc' = "l674"
               /\ UNCHANGED <<simulation_active, aborted>>
    /\ wait_elapsed' = 0
    /\ UNCHANGED <<subVars, vehicle, worker_detail, twin, masterData, simulation_step, graph_data_history,
                   pending, sum_iter, current_total_cars, jobs,
                   foreign_requests, workerVars, appended, cycle,
                   latest_registration>>

\* line 674: the loop goes on while simulation_active and the deadline has
\* not passed; the clock is not modelled, so the deadline may have passed
\* at any test.
LoopTest(limit) ==
    /\ pc = "l674"
    /\ \E deadline_passed \in BOOLEAN :
          IF simulation_active /\ ~deadline_passed
            THEN /\ simulation_step < limit
                 /\ pc' = "l675"
            ELSE pc' = "l706"
    /\ UNCHANGED <<subVars, vehicle, worker_detail, twin, masterData, simulation_step, simulation_active,
                   graph_data_history, wait_elapsed, pending, sum_iter,
                   current_total_cars, jobs, foreign_requests, workerVars,
                   appended, cycle, latest_registration, aborted>>

\* line 675
NextStep(step) == step + 1

IncrementStep ==
    /\ pc = "l675"
    /\ simulation_step' = NextStep(simulation_step)
    /\ pc' = "l680"
    /\ UNCHANGED <<subVars, vehicle, worker_detail, twin, masterData, simulation_active, graph_data_history,
                   wait_elapsed, pending, sum_iter, current_total_cars, jobs,
                   foreign_requests, workerVars, appended, cycle,
                   latest_registration, aborted>>

\* line 680: list(registered_workers.items()), in key order
ItemsOf(reg, keys) == [i \in 1 .. Len(keys) |-> <<keys[i], reg[keys[i]].url>>]

TakeSnapshot ==
    /\ pc = "l680"
    /\ pending' = ItemsOf(registered_workers, registered_keys)
    /\ cycle' = [step |-> simulation_step,
                 snapshot |-> DOMAIN registered_workers,
                 commanded_zones |-> {},
                 failed |-> {}]
    /\ pc' = "l681"
    /\ UNCHANGED <<subVars, vehicle, worker_detail, twin, masterData, simulation_step, simulation_active,
                   graph_data_history, wait_elapsed, sum_iter,
                   current_total_cars, jobs, foreign_requests, workerVars,
                   appended, latest_registration, aborted>>

\* where the loop goes after one pass of the for loop of line 680
AfterCall(rest) == IF rest = <<>> THEN "l694" ELSE "l681"

CurrentJob == CHOOSE id \in DOMAIN jobs : jobs[id].current
Lingering == {id \in DOMAIN jobs : ~jobs[id].current /\ jobs[id].w \in Workers}
Answered == {"r200", "r404", "lost"}

\* faulty variant of StepCallFails: a loop that removes the worker whose
\* call failed (the logic the comment of line 691 considers)
StepCallFailsRemoves ==
    /\ pc = "l681"
    /\ pending # <<>>
    /\ registered_workers' = Drop(registered_workers, Head(pending)[1])
    /\ registered_keys' = SelectSeq(registered_keys, LAMBDA k : k # Head(pending)[1])
    /\ cycle' = [cycle EXCEPT !.commanded_zones = @ \cup {Head(pending)[1]},
                              !.failed = @ \cup {Head(pending)[1]}]
    /\ pending' = Tail(pending)
    /\ pc' = AfterCall(Tail(pending))
    /\ UNCHANGED <<subVars, vehicle, worker_detail, twin, total_cars_in_sim, full_simulation_grid_data,
                   simulation_step, simulation_active,
                   graph_data_history, wait_elapsed, sum_iter,
                   current_total_cars, jobs, foreign_requests, workerVars,
                   appended, latest_registration, aborted>>

\* lines 682-691: requests.post raises before the worker handled the
\* command (connection error, non-success answer): logged, next worker
StepCallFails ==
    /\ pc = "l681"
    /\ pending # <<>>
    /\ cycle' = [cycle EXCEPT !.commanded_zones = @ \cup {Head(pending)[1]},
                              !.failed = @ \cup {Head(pending)[1]}]
    /\ pending' = Tail(pending)
    /\ pc' = AfterCall(Tail(pending))
    /\ UNCHANGED <<subVars, vehicle, worker_detail, twin, masterData, simulation_step, simulation_active,
                   graph_data_history, wait_elapsed, sum_iter,
                   current_total_cars, jobs, foreign_requests, workerVars,
                   appended, latest_registration, aborted>>

\* lines 683-687: the command, carrying simulation_step as read at line
\* 685, reaches the worker that serves the URL of the snapshot item
StepCallDelivered(live_until) ==
    /\ pc = "l681"
    /\ pending # <<>>
    /\ simulation_step <= live_until
    /\ LET w == WorkerAt(Head(pending)[2])
           id == <<w, simulation_step>>
       IN /\ wstate[w] = "active"
          /\ id \notin DOMAIN jobs
          /\ jobs' = Put(jobs, id, [w |-> w, step |-> simulation_step,
                                     st |-> "l730", n |-> 0, old |-> 0,
                                     current |-> TRUE])
    /\ cycle' = [cycle EXCEPT !.commanded_zones = @ \cup {Head(pending)[1]}]
    /\ pc' = "l688"
    /\ UNCHANGED <<subVars, vehicle, worker_detail, twin, masterData, simulation_step, simulation_active,
                   graph_data_history, wait_elapsed, pending, sum_iter,
                   current_total_cars, foreign_requests, workerVars, appended,
                   latest_registration, aborted>>

\* line 688: the worker answered 200 (line 780)
StepCallReturns ==
    /\ pc = "l688"
    /\ jobs[CurrentJob].st \in Answered
    /\ jobs' = Drop(jobs, CurrentJob)
    /\ pending' = Tail(pending)
    /\ pc' = AfterCall(Tail(pending))
    /\ UNCHANGED <<subVars, vehicle, worker_detail, twin, masterData, simulation_step, simulation_active,
                   graph_data_history, wait_elapsed, sum_iter,
                   current_total_cars, foreign_requests, workerVars, appended,
                   cycle, latest_registration, aborted>>

\* lines 686, 689: no answer within the timeout; the worker's handler and
\* the report it sends go on
StepCallTimesOut ==
    /\ pc = "l688"
    /\ Cardinality(Lingering) < MaxLinger
    /\ jobs' = [jobs EXCEPT ![CurrentJob].current = FALSE]
    /\ cycle' = [cycle EXCEPT !.failed = @ \cup {Head(pending)[1]}]
    /\ pending' = Tail(pending)
    /\ pc' = AfterCall(Tail(pending))
    /\ UNCHANGED <<subVars, vehicle, worker_detail, twin, masterData, simulation_step, simulation_active,
                   graph_data_history, wait_elapsed, sum_iter,
                   current_total_cars, foreign_requests, workerVars, appended,
                   latest_registration, aborted>>

\* line 694, the generator is created over registered_workers.values():
\* the iterator remembers the size of the dict
SumBegin ==
    /\ pc = "l694"
    /\ sum_iter' = [used |-> Len(registered_keys), i |-> 0, acc |-> 0]
    /\ pc' = "l694_next"
    /\ UNCHANGED <<subVars, vehicle, worker_detail, twin, masterData, simulation_step, simulation_active,
                   graph_data_history, wait_elapsed, pending,
                   current_total_cars, jobs, foreign_requests, workerVars,
                   appended, cycle, latest_registration, aborted>>

\* line 694, one next() of the iterator: RuntimeError ("dictionary changed
\* size during iteration") when a key was inserted since it was created;
\* nothing in the loop catches it, and the thread ends
SumNext ==
    /\ pc = "l694_next"
    /\ IF Len(registered_keys) # sum_iter.used
          THEN /\ pc' = "crashed"
               /\ UNCHANGED <<sum_iter, current_total_cars>>
          ELSE IF sum_iter.i < sum_iter.used
          THEN /\ sum_iter' =
                    [sum_iter EXCEPT
                       !.i = @ + 1,
                       !.acc = @ + registered_workers[registered_keys[sum_iter.i + 1]].car_count]
               /\ UNCHANGED <<pc, current_total_cars>>
          ELSE /\ current_total_cars' = sum_iter.acc
               /\ pc' = "l696"
               /\ sum_iter' = NoIter
    /\ UNCHANGED <<subVars, vehicle, worker_detail, twin, masterData, simulation_step, simulation_active,
                   graph_data_history, wait_elapsed, pending, jobs,
                   foreign_requests, workerVars, appended, cycle,
                   latest_registration, aborted>>

\* lines 696-704; the append waits for graph_data_lock.  The locals of a thread are kept only while they are
\* live: sum_iter and current_total_cars here, old_car_count in a handler.
Sample(step, total) == <<step, total>>

AppendSample ==
    /\ pc = "l696"
    /\ graph_data_lock = "free"
    /\ graph_data_history' =
          DequeAppend(graph_data_history, Sample(simulation_step, current_total_cars))
    /\ appended' = Append(appended, Sample(simulation_step, current_total_cars))
    /\ current_total_cars' = 0
    /\ pc' = "l674"
    /\ UNCHANGED <<subVars, vehicle, worker_detail, twin, masterData, simulation_step, simulation_active,
                   wait_elapsed, pending, sum_iter, jobs, foreign_requests,
                   workerVars, cycle, latest_registration, aborted>>

\* line 706
FinishLoop ==
    /\ pc = "l706"
    /\ simulation_active' = FALSE
    /\ pc' = "done"
    /\ UNCHANGED <<subVars, vehicle, worker_detail, twin, masterData, simulation_step, graph_data_history,
                   wait_elapsed, pending, sum_iter, current_total_cars, jobs,
                   foreign_requests, workerVars, appended, cycle,
                   latest_registration, aborted>>

----------------------------------------------------------------------------
(* worker_simulate_step, lines 722-780, in worker process w *)

\* lines 741-751: a car is added when the draw says so and there is room
AfterSpawn(c, spawn) == IF spawn /\ c < MAX_CARS_PER_ZONE THEN c + 1 ELSE c

\* lines 754-756: a car is removed when the draw says so and more than 20
\* are left
AfterRemove(c, remove) == IF remove /\ c > MIN_CARS THEN c - 1 ELSE c

\* the model explores the draws that keep a process's count within
\* MaxExtraCars of its least count
SpawnExplored(p, c) ==
    c < (IF p = Master THEN 0 ELSE MIN_CARS) + MaxExtraCars

\* lines 728-778: the tick and the POST of the report.  The handler sets
\* the process's simulation_step to the step of the command, moves the
\* cars, adds and removes one, and sends the report, which reaches the
\* master (a worker's report carries every field, so the test of line 617
\* passes) or is lost (RequestException, logged).
WorkerTickSends(id, outcomes) ==
    /\ id \in DOMAIN jobs
    /\ jobs[id].st = "l730"
    /\ \E spawn \in BOOLEAN, remove \in BOOLEAN :
          LET w == jobs[id].w
              c == AfterRemove(AfterSpawn(worker_vehicles[w], spawn), remove)
          IN /\ spawn => SpawnExplored(w, worker_vehicles[w])
             /\ worker_step' = [worker_step EXCEPT ![w] = jobs[id].step]
             /\ worker_vehicles' = [worker_vehicles EXCEPT ![w] = c]
             /\ \E sent \in outcomes :
                   jobs' = [jobs EXCEPT ![id].st = IF sent THEN "l620" ELSE "lost",
                                        ![id].n = c]
    /\ UNCHANGED <<subVars, vehicle, worker_detail, twin, masterData, simulation_step, simulation_active,
                   graph_data_history, loopVars, foreign_requests, wstate,
                   lost_acks, retries, appended, cycle, latest_registration,
                   aborted>>

WorkerTick(id) == WorkerTickSends(id, BOOLEAN)

\* lines 776-780 for a command whose call timed out at the master: the
\* handler returns, nobody reads the answer
WorkerReturns(id) ==
    /\ id \in DOMAIN jobs
    /\ ~jobs[id].current
    /\ jobs[id].st \in Answered
    /\ jobs' = Drop(jobs, id)
    /\ UNCHANGED <<subVars, vehicle, worker_detail, twin, masterData, simulation_step, simulation_active,
                   graph_data_history, loopVars, foreign_requests, workerVars,
                   appended, cycle, latest_registration, aborted>>

----------------------------------------------------------------------------
(* traffic_update, lines 605-645, one handler thread per report.  The      *)
(* report of job id carries zone ZoneOf(w), worker_id w, car_count n and   *)
(* the zone data of the tick.                                              *)

\* line 620
UpdateAccepted(reg, zone, worker_id) ==
    zone \in DOMAIN reg /\ reg[zone].id = worker_id

handlerFrame == <<simulation_step, simulation_active, graph_data_history,
                  loopVars, foreign_requests, workerVars, appended, cycle,
                  latest_registration, aborted, registered_keys, subVars, vehicle, worker_detail, twin>>

\* lines 620, 643-645
CheckReport(id) ==
    /\ id \in DOMAIN jobs
    /\ jobs[id].st = "l620"
    /\ jobs' = [jobs EXCEPT ![id].st =
                   IF UpdateAccepted(registered_workers, ZoneOf(jobs[id].w), jobs[id].w)
                     THEN "l621" ELSE "r404"]
    /\ UNCHANGED <<handlerFrame, registered_workers, total_cars_in_sim,
                   full_simulation_grid_data>>

\* line 621
ReadOldCount(id) ==
    /\ id \in DOMAIN jobs
    /\ jobs[id].st = "l621"
    /\ jobs' = [jobs EXCEPT ![id].st = "l622",
                            ![id].old = registered_workers[ZoneOf(jobs[id].w)].car_count]
    /\ UNCHANGED <<handlerFrame, registered_workers, total_cars_in_sim,
                   full_simulation_grid_data>>

\* line 622
WriteCount(id) ==
    /\ id \in DOMAIN jobs
    /\ jobs[id].st = "l622"
    /\ registered_workers' =
          [registered_workers EXCEPT ![ZoneOf(jobs[id].w)].car_count = jobs[id].n]
    /\ jobs' = [jobs EXCEPT ![id].st = "l623"]
    /\ UNCHANGED <<handlerFrame, total_cars_in_sim, full_simulation_grid_data>>

\* line 623
WriteLastSeen(id) ==
    /\ id \in DOMAIN jobs
    /\ jobs[id].st = "l623"
    /\ registered_workers' =
          [registered_workers EXCEPT ![ZoneOf(jobs[id].w)].last_seen = id]
    /\ jobs' = [jobs EXCEPT ![id].st = "l625"]
    /\ UNCHANGED <<handlerFrame, total_cars_in_sim, full_simulation_grid_data>>

\* lines 625-628
WriteZoneData(id) ==
    /\ id \in DOMAIN jobs
    /\ jobs[id].st = "l625"
    /\ registered_workers' =
          [registered_workers EXCEPT ![ZoneOf(jobs[id].w)].current_zone_data =
             ZoneData(jobs[id].w, jobs[id].step, jobs[id].n)]
    /\ jobs' = [jobs EXCEPT ![id].st = "l633"]
    /\ UNCHANGED <<handlerFrame, total_cars_in_sim, full_simulation_grid_data>>

\* line 633
AddToTotal(id) ==
    /\ id \in DOMAIN jobs
    /\ jobs[id].st = "l633"
    /\ total_cars_in_sim' = total_cars_in_sim + (jobs[id].n - jobs[id].old)
    /\ jobs' = [jobs EXCEPT ![id].st = "l636", ![id].old = 0]
    /\ UNCHANGED <<handlerFrame, registered_workers, full_simulation_grid_data>>

\* lines 636-642, under full_simulation_grid_data_lock
WriteGrid(id) ==
    /\ id \in DOMAIN jobs
    /\ jobs[id].st = "l636"
    /\ full_simulation_grid_data_lock = "free"
    /\ full_simulation_grid_data' =
          Put(full_simulation_grid_data, ZoneOf(jobs[id].w),
              ZoneData(jobs[id].w, jobs[id].step, jobs[id].n))
    /\ jobs' = [jobs EXCEPT ![id].st = "r200"]
    /\ UNCHANGED <<handlerFrame, registered_workers, total_cars_in_sim>>

----------------------------------------------------------------------------
(* stream_data, lines 537-581: one generator per subscriber.  Each pass    *)
(* takes both locks, reads the registry and the step counter, releases     *)
(* the locks, and yields an element if the step it read is new.  The       *)
(* writers of the registry and of simulation_step take no lock.            *)

streamFrame == <<masterData, simulation_step, simulation_active,
                 graph_data_history, loopVars, jobs, foreign_requests,
                 workerVars, appended, cycle, latest_registration, aborted,
                 vehicle, worker_detail, twin>>

\* line 540: the generator starts when the response is first iterated
stream_data(s) ==
    /\ sub[s].pc = "idle"
    /\ sub' = [sub EXCEPT ![s].pc = "l543", ![s].last_step_sent = -1]
    /\ UNCHANGED <<streamFrame, graph_data_lock, full_simulation_grid_data_lock>>

\* line 543, the first lock of the with statement
AcquireGraphLock(s) ==
    /\ sub[s].pc = "l543"
    /\ graph_data_lock = "free"
    /\ graph_data_lock' = s
    /\ sub' = [sub EXCEPT ![s].pc = "l543_grid"]
    /\ UNCHANGED <<streamFrame, full_simulation_grid_data_lock>>

\* line 543, the second lock
AcquireGridLock(s) ==
    /\ sub[s].pc = "l543_grid"
    /\ full_simulation_grid_data_lock = "free"
    /\ full_simulation_grid_data_lock' = s
    /\ sub' = [sub EXCEPT ![s].pc = "l544"]
    /\ UNCHANGED <<streamFrame, graph_data_lock>>

\* line 546
Status(active) == IF active THEN "Active" ELSE "Inactive"

\* lines 544-547
ReadTotals(s) ==
    /\ sub[s].pc = "l544"
    /\ sub' = [sub EXCEPT ![s].pc = "l550",
                          ![s].total = TotalOf(registered_workers),
                          ![s].step = simulation_step,
                          ![s].status = Status(simulation_active),
                          ![s].num_workers = Cardinality(DOMAIN registered_workers)]
    /\ UNCHANGED <<streamFrame, graph_data_lock, full_simulation_grid_data_lock>>

\* lines 550-555: the fields of a record that the copy keeps
DetailsOf(reg) ==
    [z \in DOMAIN reg |-> [url |-> reg[z].url, last_seen |-> reg[z].last_seen,
                           car_count |-> reg[z].car_count, id |-> reg[z].id]]

\* lines 550-555, and the end of the with statement
ReadDetails(s) ==
    /\ sub[s].pc = "l550"
    /\ sub' = [sub EXCEPT ![s].pc = "l559", ![s].details = DetailsOf(registered_workers)]
    /\ graph_data_lock' = "free"
    /\ full_simulation_grid_data_lock' = "free"
    /\ UNCHANGED streamFrame

\* line 559
ShouldSend(current_simulation_step, last_step_sent) ==
    \/ current_simulation_step > last_step_sent
    \/ (current_simulation_step = 0 /\ last_step_sent = -1)

\* lines 563, 574-575
PayloadType(last_step_sent) == IF last_step_sent = -1 THEN "initial_data" ELSE "update"

\* lines 562-575: the payload; the history and the zone map are read here,
\* after the with statement has released the locks
Element(s) ==
    IF sub[s].kept
      THEN [type               |-> PayloadType(sub[s].last_step_sent),
            status             |-> sub[s].status,
            step               |-> sub[s].step,
            total_cars         |-> sub[s].total,
            num_workers        |-> sub[s].num_workers,
            history            |-> graph_data_history,
            zone_data          |-> full_simulation_grid_data,
            registered_workers |-> sub[s].details]
      ELSE [type |-> PayloadType(sub[s].last_step_sent), step |-> sub[s].step]

\* lines 559-577: the payload is built and the generator yields it, or the
\* pass is skipped
BuildPayload(s) ==
    /\ sub[s].pc = "l559"
    /\ IF ShouldSend(sub[s].step, sub[s].last_step_sent)
          THEN sub' = [sub EXCEPT ![s].pc = "l577",
                                  ![s].details = EmptyDict,
                                  ![s].total = 0,
                                  ![s].status = "none",
                                  ![s].num_workers = 0,
                                  ![s].payload = Element(s)]
          ELSE sub' = [sub EXCEPT ![s].pc = "l579", ![s].details = EmptyDict,
                                  ![s].total = 0, ![s].step = 0,
                                  ![s].status = "none", ![s].num_workers = 0]
    /\ UNCHANGED <<streamFrame, graph_data_lock, full_simulation_grid_data_lock>>

\* lines 577-578: the subscriber takes the element and the generator goes on
Deliver(s) ==
    /\ sub[s].pc = "l577"
    /\ sub' = [sub EXCEPT ![s].pc = "l579",
                          ![s].received = Append(@, sub[s].payload),
                          ![s].last_step_sent = sub[s].step,
                          ![s].payload = NoPayload,
                          ![s].step = 0]
    /\ UNCHANGED <<streamFrame, graph_data_lock, full_simulation_grid_data_lock>>

\* line 577: the subscriber is gone, the generator is closed at the yield
Disconnect(s) ==
    /\ sub[s].pc = "l577"
    /\ sub' = [sub EXCEPT ![s].pc = "closed", ![s].payload = NoPayload,
                          ![s].step = 0, ![s].last_step_sent = -1]
    /\ UNCHANGED <<streamFrame, graph_data_lock, full_simulation_grid_data_lock>>

\* line 579: the sleep is over
Wake(s) ==
    /\ sub[s].pc = "l579"
    /\ sub' = [sub EXCEPT ![s].pc = "l543"]
    /\ UNCHANGED <<streamFrame, graph_data_lock, full_simulation_grid_data_lock>>

----------------------------------------------------------------------------
(* Vehicle, lines 89-113, and the places where vehicles are created.       *)
(* Coordinates are whole pixels.                                           *)

vehicleFrame == <<masterData, simulation_step, simulation_active,
                  graph_data_history, loopVars, jobs, foreign_requests,
                  workerVars, appended, cycle, latest_registration, aborted,
                  subVars, worker_detail, twin>>

\* lines 795-798 of worker_startup: where a vehicle of the initial fill is
\* put on the axis of its motion
InitialPositions(direction) ==
    IF direction \in {"E", "S"}
      THEN BoundMin .. ((ZONE_SIZE * 4) \div 10)
      ELSE ((ZONE_SIZE * 6) \div 10) .. ZONE_SIZE

\* lines 744-747 of worker_simulate_step: where a vehicle is spawned
SpawnPosition(direction) ==
    IF direction \in {"E", "S"} THEN 0 - CAR_SIZE ELSE ZONE_SIZE

\* lines 97-110, Vehicle.move
Move(pos, direction) ==
    IF direction \in {"E", "S"}
      THEN IF pos + CAR_SPEED > BoundMax + CAR_SIZE THEN BoundMin - CAR_SIZE
                                                    ELSE pos + CAR_SPEED
      ELSE IF pos - CAR_SPEED < BoundMin - CAR_SIZE THEN BoundMax + CAR_SIZE
                                                    ELSE pos - CAR_SPEED

\* lines 790-800
PlaceVehicle ==
    /\ vehicle.direction = "none"
    /\ \E direction \in Directions :
          \E pos \in InitialPositions(direction) :
              vehicle' = [direction |-> direction, pos |-> pos, last |-> "placed"]
    /\ UNCHANGED vehicleFrame

\* lines 741-751: the vehicle looked at is one that a tick has just added
SpawnVehicle ==
    /\ \E direction \in Directions :
          vehicle' = [direction |-> direction, pos |-> SpawnPosition(direction),
                      last |-> "spawned"]
    /\ UNCHANGED vehicleFrame

\* lines 737-738: a tick moves the vehicle
MoveVehicle ==
    /\ vehicle.direction # "none"
    /\ vehicle' = [vehicle EXCEPT !.pos = Move(vehicle.pos, vehicle.direction),
                                  !.last = "moved"]
    /\ UNCHANGED vehicleFrame

VehicleNext == PlaceVehicle \/ SpawnVehicle \/ MoveVehicle

VehicleInit == InitMaster /\ InitWorkers({"w3"})

SpecVehicle == VehicleInit /\ [][VehicleNext]_vars

----------------------------------------------------------------------------
(* worker_simulate_step, lines 722-780, statement by statement.  The       *)
(* worker's Flask server runs one thread per request: the master sends the *)
(* command of step k + 1 when its call for step k has returned or has      *)
(* timed out (lines 683-690), and a handler whose call timed out is still  *)
(* running when the next command arrives.  The threads share the module    *)
(* globals simulation_step, worker_vehicles and worker_traffic_light.      *)

tickFrame == <<masterData, simulation_step, simulation_active,
               graph_data_history, loopVars, foreign_requests, wstate,
               lost_acks, retries, appended, cycle, latest_registration,
               aborted, subVars, twin>>

\* lines 680-687 as the worker sees them: the next step command arrives.
\* A handler that is still running is the handler of the command before:
\* it ends before the master has gone through another cycle.
StepCommand(w, limit) ==
    /\ wstate[w] = "active"
    /\ worker_detail.commanded < limit
    /\ Cardinality(DOMAIN jobs) < MaxHandlers
    /\ \A id \in DOMAIN jobs : jobs[id].step = worker_detail.commanded
    /\ jobs' = Put(jobs, <<w, worker_detail.commanded + 1>>,
                   [w |-> w, step |-> worker_detail.commanded + 1, st |-> "l730",
                    n |-> 0, old |-> 0, current |-> FALSE,
                    new_car_id |-> <<>>, index |-> 0, states |-> 0])
    /\ worker_detail' = [worker_detail EXCEPT !.commanded = @ + 1]
    /\ UNCHANGED <<tickFrame, worker_vehicles, worker_step, vehicle>>

\* line 730
SetStep(id) ==
    /\ id \in DOMAIN jobs
    /\ jobs[id].st = "l730"
    /\ worker_step' = [worker_step EXCEPT ![jobs[id].w] = jobs[id].step]
    /\ jobs' = [jobs EXCEPT ![id].st = "l734"]
    /\ UNCHANGED <<tickFrame, worker_vehicles, worker_detail, vehicle>>

\* faulty variant of LightIsDue: a light that changes at cycle_time sharp
LightIsDueAtCycleTime(now, last_change_time) == now - last_change_time >= cycle_time

\* line 124 of TrafficLight.update, called at line 734
LightIsDue(now, last_change_time) == now - last_change_time > cycle_time

CheckLight(id) ==
    /\ id \in DOMAIN jobs
    /\ jobs[id].st = "l734"
    /\ jobs' = [jobs EXCEPT ![id].st =
                   IF LightIsDue(worker_detail.now,
                                 worker_detail.light.last_change_time)
                     THEN "l125" ELSE "l737"]
    /\ UNCHANGED <<tickFrame, worker_vehicles, worker_step, worker_detail, vehicle>>

\* line 125
Toggled(state) == IF state = "red" THEN "green" ELSE "red"

ToggleLight(id) ==
    /\ id \in DOMAIN jobs
    /\ jobs[id].st = "l125"
    /\ worker_detail' = [worker_detail EXCEPT !.light.state = Toggled(@)]
    /\ jobs' = [jobs EXCEPT ![id].st = "l126"]
    /\ UNCHANGED <<tickFrame, worker_vehicles, worker_step, vehicle>>

\* line 126
StampLight(id) ==
    /\ id \in DOMAIN jobs
    /\ jobs[id].st = "l126"
    /\ worker_detail' =
          [worker_detail EXCEPT !.light.last_change_time = worker_detail.now]
    /\ jobs' = [jobs EXCEPT ![id].st = "l737"]
    /\ UNCHANGED <<tickFrame, worker_vehicles, worker_step, vehicle>>

\* lines 737-738
MoveVehicles(id) ==
    /\ id \in DOMAIN jobs
    /\ jobs[id].st = "l737"
    /\ vehicle' = IF vehicle.direction = "none" THEN vehicle
                  ELSE [vehicle EXCEPT !.pos = Move(vehicle.pos, vehicle.direction),
                                       !.last = "moved"]
    /\ jobs' = [jobs EXCEPT ![id].st = "l741"]
    /\ UNCHANGED <<tickFrame, worker_vehicles, worker_step, worker_detail>>

\* line 741: the draw and the test of the length
SpawnPasses(spawn, length) == spawn /\ length < MAX_CARS_PER_ZONE

DrawSpawn(id) ==
    /\ id \in DOMAIN jobs
    /\ jobs[id].st = "l741"
    /\ \E spawn \in BOOLEAN :
          jobs' = [jobs EXCEPT ![id].st =
                      IF SpawnPasses(spawn, worker_vehicles[jobs[id].w])
                        THEN "l750" ELSE "l754"]
    /\ UNCHANGED <<tickFrame, worker_vehicles, worker_step, worker_detail, vehicle>>

\* line 750: worker_id, the process's simulation_step, a random number
CarId(w, step, suffix) == <<w, "car", step, suffix>>

NewCarId(id) ==
    /\ id \in DOMAIN jobs
    /\ jobs[id].st = "l750"
    /\ \E suffix \in 0 .. MaxSuffix :
          jobs' = [jobs EXCEPT
                     ![id].st = "l751",
                     ![id].new_car_id =
                        IF worker_detail.kept
                          THEN CarId(jobs[id].w, worker_step[jobs[id].w], suffix)
                          ELSE <<>>]
    /\ UNCHANGED <<tickFrame, worker_vehicles, worker_step, worker_detail, vehicle>>

\* line 751
AppendVehicle(id) ==
    /\ id \in DOMAIN jobs
    /\ jobs[id].st = "l751"
    /\ worker_vehicles' = [worker_vehicles EXCEPT ![jobs[id].w] = @ + 1]
    /\ worker_detail' =
          [worker_detail EXCEPT !.ids = IF worker_detail.kept
                                          THEN Append(@, jobs[id].new_car_id) ELSE @]
    /\ jobs' = [jobs EXCEPT ![id].st = "l754", ![id].new_car_id = <<>>]
    /\ UNCHANGED <<tickFrame, worker_step, vehicle>>

\* line 754: the draw and the test of the length
RemovePasses(remove, length) == remove /\ length > MIN_CARS

DrawRemove(id) ==
    /\ id \in DOMAIN jobs
    /\ jobs[id].st = "l754"
    /\ \E remove \in BOOLEAN :
          jobs' = [jobs EXCEPT ![id].st =
                      IF RemovePasses(remove, worker_vehicles[jobs[id].w])
                        THEN "l756" ELSE "l759"]
    /\ UNCHANGED <<tickFrame, worker_vehicles, worker_step, worker_detail, vehicle>>

\* line 756, random.randint(0, len(worker_vehicles) - 1): the model
\* explores the first and the last index
PopExplored(length) == {0, length - 1}

DrawIndex(id) ==
    /\ id \in DOMAIN jobs
    /\ jobs[id].st = "l756"
    /\ \E index \in PopExplored(worker_vehicles[jobs[id].w]) :
          jobs' = [jobs EXCEPT ![id].st = "l756_pop", ![id].index = index]
    /\ UNCHANGED <<tickFrame, worker_vehicles, worker_step, worker_detail, vehicle>>

\* list.pop(i), i counted from 0
Pop(seq, i) == SubSeq(seq, 1, i) \o SubSeq(seq, i + 2, Len(seq))

\* line 756, worker_vehicles.pop: IndexError when the list has become
\* shorter than the index drawn; the handler ends with status 500
PopVehicle(id) ==
    /\ id \in DOMAIN jobs
    /\ jobs[id].st = "l756_pop"
    /\ IF jobs[id].index < worker_vehicles[jobs[id].w]
          THEN /\ worker_vehicles' = [worker_vehicles EXCEPT ![jobs[id].w] = @ - 1]
               /\ worker_detail' =
                     [worker_detail EXCEPT !.ids = IF worker_detail.kept
                                                     THEN Pop(@, jobs[id].index) ELSE @]
               /\ jobs' = [jobs EXCEPT ![id].st = "l759", ![id].index = 0]
          ELSE /\ jobs' = Drop(jobs, id)
               /\ UNCHANGED <<worker_vehicles, worker_detail>>
    /\ UNCHANGED <<tickFrame, worker_step, vehicle>>

\* lines 759-760: the list of the states is built
GetStates(id) ==
    /\ id \in DOMAIN jobs
    /\ jobs[id].st = "l759"
    /\ jobs' = [jobs EXCEPT ![id].st = "l768",
                            ![id].states = worker_vehicles[jobs[id].w]]
    /\ UNCHANGED <<tickFrame, worker_vehicles, worker_step, worker_detail, vehicle>>

\* lines 764-778: len(worker_vehicles) is read for "car_count" and the
\* report is posted; it reaches the master or is lost
SendReport(id, outcomes) ==
    /\ id \in DOMAIN jobs
    /\ jobs[id].st = "l768"
    /\ \E sent \in outcomes :
          jobs' = [jobs EXCEPT ![id].st = IF sent THEN "l620" ELSE "lost",
                               ![id].n = worker_vehicles[jobs[id].w]]
    /\ UNCHANGED <<tickFrame, worker_vehicles, worker_step, worker_detail, vehicle>>

\* a second passes
Advance ==
    /\ worker_detail.now < MaxClock
    /\ worker_detail' = [worker_detail EXCEPT !.now = @ + 1]
    /\ UNCHANGED <<tickFrame, jobs, worker_vehicles, worker_step, vehicle>>

\* A worker from its start for many steps; its reports do not reach the
\* master, the clock is not looked at and the list of vehicles is kept as
\* its length.
ZoneInit ==
    InitMaster /\ InitWorkersWith({TheWorker}, MIN_CARS .. MAX_INITIAL_CARS, FALSE)

ZoneNext ==
    \/ register_worker(TheWorker, TRUE)
    \/ StepCommand(TheWorker, MaxZoneStep)
    \/ \E id \in DOMAIN jobs :
          \/ SetStep(id)
          \/ CheckLight(id)
          \/ MoveVehicles(id)
          \/ DrawSpawn(id)
          \/ NewCarId(id)
          \/ AppendVehicle(id)
          \/ DrawRemove(id)
          \/ DrawIndex(id)
          \/ PopVehicle(id)
          \/ GetStates(id)
          \/ SendReport(id, {FALSE})
          \/ WorkerReturns(id)

SpecZone == ZoneInit /\ [][ZoneNext]_vars

\* A worker in its first steps, with its light, the clock and the ids of its
\* vehicles.
TickInit == InitMaster /\ InitWorkersWith({TheWorker}, {MIN_CARS}, TRUE)

TickNext ==
    \/ register_worker(TheWorker, TRUE)
    \/ StepCommand(TheWorker, MaxTickStep)
    \/ Advance
    \/ \E id \in DOMAIN jobs :
          \/ SetStep(id)
          \/ CheckLight(id)
          \/ ToggleLight(id)
          \/ StampLight(id)
          \/ MoveVehicles(id)
          \/ DrawSpawn(id)
          \/ NewCarId(id)
          \/ AppendVehicle(id)
          \/ DrawRemove(id)
          \/ DrawIndex(id)
          \/ PopVehicle(id)
          \/ GetStates(id)
          \/ SendReport(id, {FALSE})
          \/ WorkerReturns(id)

SpecTick == TickInit /\ [][TickNext]_vars

----------------------------------------------------------------------------
(* Two worker processes of one zone that start with the same vehicles and  *)
(* are given the same commands and the same values of the random source.   *)
(* Each has its own worker_id and its own clock.  A tick is lines 730-756  *)
(* of worker_simulate_step as one function of the process's state, the     *)
(* command, the values drawn and the time.                                 *)

twinFrame == <<masterData, simulation_step, simulation_active,
               graph_data_history, loopVars, jobs, foreign_requests,
               workerVars, appended, cycle, latest_registration, aborted,
               subVars, vehicle, worker_detail>>

\* the values the random source yields, in the order of the calls
Raw == 0 .. MaxRaw
Draws == [1 .. DRAWS_PER_TICK -> Raw]

\* random.random() < p, lines 741 and 754
Below(raw) == raw = 0
\* random.choice(['E', 'W', 'N', 'S']), line 742
Choice(raw) == <<"E", "W", "N", "S">>[(raw % 4) + 1]
\* random.randint(0, high), lines 750 and 756
RandInt(raw, high) == IF raw = MaxRaw THEN high ELSE raw % (high + 1)

\* TrafficLight.update, lines 123-126
LightUpdate(light, now) ==
    IF LightIsDue(now, light.last_change_time)
      THEN [state |-> Toggled(light.state), last_change_time |-> now]
      ELSE light

\* lines 737-738
MoveAll(vehicles) ==
    [i \in 1 .. Len(vehicles) |->
        [vehicles[i] EXCEPT !.pos = Move(@, vehicles[i].direction)]]

\* a tick in which the vehicles wait at a red light
TickStopsAtRed(p, w, master_step, draws, now) ==
    LET light == LightUpdate(p.light, now)
        moved == IF light.state = "red" THEN p.worker_vehicles
                                        ELSE MoveAll(p.worker_vehicles)
    IN [worker_vehicles |-> moved, simulation_step |-> master_step,
        light |-> light, now |-> now]

\* lines 730-756 in the process w: random.random() is called before the
\* length is tested (lines 741, 754), the other calls only where the test
\* passes
Tick(p, w, master_step, draws, now) ==
    LET light     == LightUpdate(p.light, now)
        moved     == MoveAll(p.worker_vehicles)
        spawn     == SpawnPasses(Below(draws[1]), Len(moved))
        direction == Choice(draws[2])
        spawned   == IF spawn
                       THEN Append(moved,
                              [id        |-> CarId(w, master_step,
                                                   RandInt(draws[3], MaxSuffix)),
                               direction |-> direction,
                               pos       |-> SpawnPosition(direction)])
                       ELSE moved
        used      == IF spawn THEN 3 ELSE 1
        remove    == RemovePasses(Below(draws[used + 1]), Len(spawned))
        left      == IF remove
                       THEN Pop(spawned, RandInt(draws[used + 2], Len(spawned) - 1))
                       ELSE spawned
    IN [worker_vehicles |-> left, simulation_step |-> master_step,
        light |-> light, now |-> now]

\* lines 790-803 of worker_startup, with the same values in both processes
TwinVehicles(direction, pos) ==
    [i \in 1 .. MIN_CARS |->
        [id |-> InitialIds("w1", MIN_CARS)[i], direction |-> direction, pos |-> pos]]

TwinStartup ==
    /\ ~twin.started
    /\ \E direction \in Directions :
          \E pos \in {x \in InitialPositions(direction) :
                          \A y \in InitialPositions(direction) : x <= y} :
             twin' = [twin EXCEPT
                        !.started = TRUE,
                        !.proc = [w \in TwinWorkers |->
                                     [@[w] EXCEPT !.worker_vehicles =
                                                     TwinVehicles(direction, pos)]]]
    /\ UNCHANGED twinFrame

\* the seconds between two commands as a worker's clock shows them
TickGaps == {1, cycle_time + 1}

\* the command of the next step reaches both processes, and both are given
\* the same values of the random source
TwinStep ==
    /\ twin.started
    /\ twin.commanded < MaxTwinStep
    /\ \E draws \in Draws :
          \E gap \in [TwinWorkers -> TickGaps] :
             twin' = [twin EXCEPT
                        !.commanded = @ + 1,
                        !.proc = [w \in TwinWorkers |->
                                     Tick(twin.proc[w], w, twin.commanded + 1, draws,
                                          twin.proc[w].now + gap[w])]]
    /\ UNCHANGED twinFrame

TwinInit == InitMaster /\ InitWorkers({})

TwinNext == TwinStartup \/ TwinStep

SpecTwin == TwinInit /\ [][TwinNext]_vars

----------------------------------------------------------------------------
(* The master and the workers it started *)

Next ==
    \/ \E w \in Workers : register_worker(w, TRUE)
    \/ WaitForWorkers
    \/ StartOrExit
    \/ LoopTest(MaxStep)
    \/ IncrementStep
    \/ TakeSnapshot
    \/ StepCallFails
    \/ StepCallDelivered(MaxStep)
    \/ StepCallReturns
    \/ StepCallTimesOut
    \/ SumBegin
    \/ SumNext
    \/ AppendSample
    \/ FinishLoop
    \/ \E id \in DOMAIN jobs :
          \/ WorkerTick(id)
          \/ WorkerReturns(id)
          \/ CheckReport(id)
          \/ ReadOldCount(id)
          \/ WriteCount(id)
          \/ WriteLastSeen(id)
          \/ WriteZoneData(id)
          \/ AddToTotal(id)
          \/ WriteGrid(id)

Spec == Init /\ [][Next]_vars

----------------------------------------------------------------------------
(* The master's endpoints are open to any client.  Two requests that no    *)
(* worker started in this run sends: a POST to /simulate_step of the       *)
(* master (the route of line 722 belongs to the Flask app the master       *)
(* serves, line 896), and a report of a worker that registered with an     *)
(* earlier run of the master.                                              *)

\* worker_simulate_step, lines 722-780, in the master process: line 730
\* stores the step of the request in the module global simulation_step,
\* which in this process is the master's step counter.  The process has
\* no cars to move and no light; the report goes to http://None:5000
\* (master_host is never set in this process) and fails, which is logged.
StepStored(current, master_step) == master_step

master_simulate_step(master_step) ==
    /\ foreign_requests < MaxForeign
    /\ foreign_requests' = foreign_requests + 1
    /\ simulation_step' = StepStored(simulation_step, master_step)
    /\ \E spawn \in BOOLEAN, remove \in BOOLEAN :
          /\ spawn => SpawnExplored(Master, worker_vehicles[Master])
          /\ worker_vehicles' =
                [worker_vehicles EXCEPT ![Master] = AfterRemove(AfterSpawn(@, spawn), remove)]
    /\ UNCHANGED <<subVars, vehicle, worker_detail, twin, masterData, simulation_active, graph_data_history, loopVars,
                   jobs, wstate, lost_acks, retries, worker_step, appended,
                   cycle, latest_registration, aborted>>

\* traffic_update reached by the report of a worker of an earlier run
foreign_report ==
    /\ foreign_requests < MaxForeign
    /\ foreign_requests' = foreign_requests + 1
    /\ <<Foreign, 0>> \notin DOMAIN jobs
    /\ jobs' = Put(jobs, <<Foreign, 0>>,
                   [w |-> Foreign, step |-> 0, st |-> "l620", n |-> MIN_CARS,
                    old |-> 0, current |-> FALSE])
    /\ UNCHANGED <<subVars, vehicle, worker_detail, twin, masterData, simulation_step, simulation_active,
                   graph_data_history, loopVars, workerVars, appended, cycle,
                   latest_registration, aborted>>

OpenInit == InitMaster /\ InitWorkers({"w3"})

OpenNext ==
    \/ Next
    \/ \E master_step \in 0 .. MaxStep : master_simulate_step(master_step)
    \/ foreign_report

SpecOpen == OpenInit /\ [][OpenNext]_vars

----------------------------------------------------------------------------
(* Requests whose JSON body any client wrote.  A field the body lacks is   *)
(* None to the handler (data.get); an absent or empty worker_url is kept   *)
(* as the empty tuple.  The outcome of a request is kept in jobs under the *)
(* key <<"client", k>>.                                                    *)

None == "None"
NoUrl == <<>>

\* faulty variant of RegisterRejected: a test that forgets worker_url
RegisterRejectedUnlessNoUrl(zone, worker_url, worker_id) ==
    zone \in {None, ""} \/ worker_id \in {None, ""}

\* line 592: not zone or not worker_url or not worker_id
RegisterRejected(zone, worker_url, worker_id) ==
    zone \in {None, ""} \/ worker_url = NoUrl \/ worker_id \in {None, ""}

\* line 617: not zone or 'car_count' not in data or not worker_id_from_update
ReportRejected(zone, has_count, worker_id) ==
    zone \in {None, ""} \/ ~has_count \/ worker_id \in {None, ""}

ClientJob == <<"client", foreign_requests + 1>>

\* register_worker, lines 587-603, for the body of a client
client_register(zone, worker_url, worker_id) ==
    /\ foreign_requests < MaxRequests
    /\ foreign_requests' = foreign_requests + 1
    /\ IF RegisterRejected(zone, worker_url, worker_id)
          THEN /\ jobs' = Put(jobs, ClientJob,
                              [w |-> worker_id, zone |-> zone, url |-> worker_url,
                               request |-> "register", step |-> 0, st |-> "r400",
                               n |-> 0, old |-> 0, current |-> FALSE])
               /\ UNCHANGED <<registered_workers, registered_keys,
                              latest_registration>>
          ELSE /\ jobs' = Put(jobs, ClientJob,
                              [w |-> worker_id, zone |-> zone, url |-> worker_url,
                               request |-> "register", step |-> 0, st |-> "r200",
                               n |-> 0, old |-> 0, current |-> FALSE])
               /\ registered_workers' =
                     Put(registered_workers, zone,
                         [url               |-> worker_url,
                          last_seen         |-> <<worker_id, 0>>,
                          car_count         |-> 0,
                          id                |-> worker_id,
                          current_zone_data |-> EmptyZoneData])
               /\ registered_keys' =
                     KeysAfterStore(registered_keys, DOMAIN registered_workers, zone)
               /\ latest_registration' =
                     Put(latest_registration, zone, <<worker_url, worker_id>>)
    /\ UNCHANGED <<subVars, vehicle, worker_detail, twin, total_cars_in_sim, full_simulation_grid_data,
                   simulation_step, simulation_active, graph_data_history,
                   loopVars, workerVars, appended, cycle, aborted>>

\* traffic_update, lines 609-618, for the body of a client: the request is
\* answered 400, or goes on to the test of line 620
client_report(zone, has_count, car_count, worker_id) ==
    /\ foreign_requests < MaxRequests
    /\ foreign_requests' = foreign_requests + 1
    /\ jobs' = Put(jobs, ClientJob,
                   [w |-> worker_id, zone |-> zone, has_count |-> has_count,
                    request |-> "report", step |-> 0,
                    st |-> IF ReportRejected(zone, has_count, worker_id)
                             THEN "r400" ELSE "l620",
                    n |-> IF has_count THEN car_count ELSE 0,
                    old |-> 0, current |-> FALSE])
    /\ UNCHANGED <<subVars, vehicle, worker_detail, twin, masterData, simulation_step, simulation_active,
                   graph_data_history, loopVars, workerVars, appended, cycle,
                   latest_registration, aborted>>

\* the bodies explored: a zone or none, a URL or none, a worker_id or none
ClientIds == {None, "", Foreign, "w3", "w5"}
ClientZones(worker_id) ==
    {None, ""} \cup (IF worker_id \in {None, ""} THEN {"South"} ELSE {ZoneOf(worker_id)})
ClientUrls(worker_id) ==
    {NoUrl} \cup (IF worker_id \in {None, ""} THEN {UrlOf(Foreign)} ELSE {UrlOf(worker_id)})
ClientCounts == {0, MIN_CARS}

RejectInit == InitMaster /\ InitWorkers({"w3"})

RejectNext ==
    \/ register_worker("w3", TRUE)
    \/ \E worker_id \in ClientIds :
          \E zone \in ClientZones(worker_id), worker_url \in ClientUrls(worker_id) :
              client_register(zone, worker_url, worker_id)
    \/ \E worker_id \in ClientIds :
          \E zone \in ClientZones(worker_id), has_count \in BOOLEAN,
             car_count \in ClientCounts :
              client_report(zone, has_count, car_count, worker_id)
    \/ \E id \in DOMAIN jobs :
          \/ CheckReport(id)
          \/ ReadOldCount(id)
          \/ WriteCount(id)
          \/ WriteLastSeen(id)
          \/ WriteZoneData(id)
          \/ AddToTotal(id)
          \/ WriteGrid(id)

SpecReject == RejectInit /\ [][RejectNext]_vars

----------------------------------------------------------------------------
(* The start of a run with a worker process for every expected zone, up to *)
(* the first test of the loop of line 674.                                 *)

StartupInit == InitMaster /\ InitWorkers(Workers)

StartupNext ==
    \/ \E w \in Workers, answered \in BOOLEAN : register_worker(w, answered)
    \/ WaitForWorkers
    \/ StartOrExit

SpecStartup == StartupInit /\ [][StartupNext]_vars

----------------------------------------------------------------------------
(* A long run of the master loop with one worker, which answers the step   *)
(* commands of the first HistLive steps and is unreachable afterwards.     *)

HistInit == InitMaster /\ InitWorkers({"w3"})

HistNext ==
    \/ \E w \in Workers : register_worker(w, TRUE)
    \/ WaitForWorkers
    \/ StartOrExit
    \/ LoopTest(MaxHistStep)
    \/ IncrementStep
    \/ TakeSnapshot
    \/ StepCallFails
    \/ StepCallDelivered(HistLive)
    \/ StepCallReturns
    \/ SumBegin
    \/ SumNext
    \/ AppendSample
    \/ FinishLoop
    \/ \E id \in DOMAIN jobs :
          \/ WorkerTick(id)
          \/ CheckReport(id)
          \/ ReadOldCount(id)
          \/ WriteCount(id)
          \/ WriteLastSeen(id)
          \/ WriteZoneData(id)
          \/ AddToTotal(id)
          \/ WriteGrid(id)

SpecHist == HistInit /\ [][HistNext]_vars

----------------------------------------------------------------------------
(* A run in which nothing fails: a worker process for each of the four     *)
(* zones, registrations only during the startup wait, every step command   *)
(* delivered and answered in time, every report delivered.                 *)

GoodStarted == {"w2", "w3", "w4", "w5"}

\* the processes are started one after the other and register in that order
GoodOrder == <<"w2", "w3", "w4", "w5">>

GoodInit == InitMaster /\ InitWorkers(GoodStarted)

GoodNext ==
    \/ \E i \in 1 .. Len(GoodOrder) :
          /\ pc = "l661"
          /\ \A j \in 1 .. i - 1 : wstate[GoodOrder[j]] = "active"
          /\ register_worker(GoodOrder[i], TRUE)
    \/ WaitForWorkers
    \/ StartOrExit
    \/ LoopTest(MaxGoodStep)
    \/ IncrementStep
    \/ TakeSnapshot
    \/ StepCallDelivered(MaxGoodStep)
    \/ StepCallReturns
    \/ SumBegin
    \/ SumNext
    \/ AppendSample
    \/ FinishLoop
    \/ \E id \in DOMAIN jobs :
          \/ WorkerTickSends(id, {TRUE})
          \/ CheckReport(id)
          \/ ReadOldCount(id)
          \/ WriteCount(id)
          \/ WriteLastSeen(id)
          \/ WriteZoneData(id)
          \/ AddToTotal(id)
          \/ WriteGrid(id)

SpecGood == GoodInit /\ [][GoodNext]_vars

----------------------------------------------------------------------------
(* A run in which one step call fails: workers for two zones; in cycle     *)
(* StaleStep the call to the second times out at the master and the report *)
(* of that tick never reaches the master; every other call is answered in  *)
(* time and every other report is delivered.                               *)

StaleWorker == "w4"
StaleOrder == <<"w3", StaleWorker>>
StaleJob == <<StaleWorker, StaleStep>>

StaleInit == InitMaster /\ InitWorkers({"w3", StaleWorker})

StaleNext ==
    \/ \E i \in 1 .. Len(StaleOrder) :
          /\ pc = "l661"
          /\ \A j \in 1 .. i - 1 : wstate[StaleOrder[j]] = "active"
          /\ register_worker(StaleOrder[i], TRUE)
    \/ WaitForWorkers
    \/ StartOrExit
    \/ LoopTest(StaleStep + 1)
    \/ IncrementStep
    \/ TakeSnapshot
    \/ StepCallDelivered(StaleStep + 1)
    \/ pc = "l688" /\ CurrentJob # StaleJob /\ StepCallReturns
    \/ pc = "l688" /\ CurrentJob = StaleJob /\ StepCallTimesOut
    \/ SumBegin
    \/ SumNext
    \/ AppendSample
    \/ FinishLoop
    \/ \E id \in DOMAIN jobs :
          \/ WorkerTickSends(id, {id # StaleJob})
          \/ WorkerReturns(id)
          \/ CheckReport(id)
          \/ ReadOldCount(id)
          \/ WriteCount(id)
          \/ WriteLastSeen(id)
          \/ WriteZoneData(id)
          \/ AddToTotal(id)
          \/ WriteGrid(id)

SpecStale == StaleInit /\ [][StaleNext]_vars

----------------------------------------------------------------------------
(* The master with one worker and the subscribers of the stream.           *)

StreamInit == InitMaster /\ InitWorkers({"w3"})

\* The subscribers attach in the order s1, s2.  The passes of the startup
\* wait differ in nothing a generator reads, so the generators are left to
\* run in the first of them and after the wait.
StreamOrder(s) == s = "s2" => sub["s1"].pc # "idle"
StreamsRun == pc # "l661" \/ wait_elapsed = 0

MasterAndWorker ==
    \/ register_worker("w3", TRUE)
    \/ WaitForWorkers
    \/ StartOrExit
    \/ LoopTest(MaxStreamStep)
    \/ IncrementStep
    \/ TakeSnapshot
    \/ StepCallFails
    \/ StepCallDelivered(MaxStreamStep)
    \/ StepCallReturns
    \/ SumBegin
    \/ SumNext
    \/ AppendSample
    \/ FinishLoop
    \/ \E id \in DOMAIN jobs :
          \/ WorkerTickSends(id, {TRUE})
          \/ CheckReport(id)
          \/ ReadOldCount(id)
          \/ WriteCount(id)
          \/ WriteLastSeen(id)
          \/ WriteZoneData(id)
          \/ AddToTotal(id)
          \/ WriteGrid(id)

Stream(s) ==
    \/ StreamsRun /\ StreamOrder(s) /\ stream_data(s)
    \/ StreamsRun /\ AcquireGraphLock(s)
    \/ StreamsRun /\ AcquireGridLock(s)
    \/ StreamsRun /\ ReadTotals(s)
    \/ StreamsRun /\ ReadDetails(s)
    \/ StreamsRun /\ BuildPayload(s)
    \/ StreamsRun /\ Deliver(s)
    \/ StreamsRun /\ Disconnect(s)
    \/ StreamsRun /\ Wake(s)

StreamNext ==
    \/ MasterAndWorker
    \/ \E s \in Subs : Stream(s)

SpecStream == StreamInit /\ [][StreamNext]_vars

\* one subscriber, and a request to /simulate_step of the master as in
\* SpecOpen
StreamOpenNext ==
    \/ MasterAndWorker
    \/ \E master_step \in 0 .. MaxStreamStep : master_simulate_step(master_step)
    \/ Stream("s1")

SpecStreamOpen == StreamInit /\ [][StreamOpenNext]_vars

\* One subscriber that stays attached, and every element it is sent is kept
\* whole.
ElementInit == InitMasterWith(TRUE) /\ InitWorkers({"w3"})

Attached(s) ==
    \/ stream_data(s)
    \/ AcquireGraphLock(s)
    \/ AcquireGridLock(s)
    \/ ReadTotals(s)
    \/ ReadDetails(s)
    \/ BuildPayload(s)
    \/ Deliver(s)
    \/ Wake(s)

ElementNext ==
    \/ MasterAndWorker
    \/ StreamsRun /\ Attached("s1")

SpecElement == ElementInit /\ [][ElementNext]_vars

----------------------------------------------------------------------------
(* Workers whose registration attempts may fail: the attempt does not      *)
(* reach the master, or the master's answer is lost.                       *)

RetryInit == InitMaster /\ InitWorkers({"w3", "w4"})

RetryNext ==
    \/ \E w \in Workers, answered \in BOOLEAN : register_worker(w, answered)
    \/ \E w \in Workers : RegistrationFails(w)
    \/ WaitForWorkers
    \/ StartOrExit
    \/ LoopTest(MaxRetryStep)
    \/ IncrementStep
    \/ TakeSnapshot
    \/ StepCallFails
    \/ StepCallDelivered(MaxRetryStep)
    \/ StepCallReturns
    \/ SumBegin
    \/ SumNext
    \/ AppendSample
    \/ FinishLoop
    \/ \E id \in DOMAIN jobs :
          \/ WorkerTickSends(id, {TRUE})
          \/ CheckReport(id)
          \/ ReadOldCount(id)
          \/ WriteCount(id)
          \/ WriteLastSeen(id)
          \/ WriteZoneData(id)
          \/ AddToTotal(id)
          \/ WriteGrid(id)

SpecRetry == RetryInit /\ [][RetryNext]_vars

----------------------------------------------------------------------------
(* Properties *)

Min(a, b) == IF a <= b THEN a ELSE b
LastOf(seq, k) == SubSeq(seq, Len(seq) - k + 1, Len(seq))

\* the handler of the report of job id takes a step
HandlerSteps(id) ==
    /\ id \in DOMAIN jobs
    /\ jobs[id].st \in {"l620", "l621", "l622", "l623", "l625", "l633", "l636"}
    /\ id \in DOMAIN jobs'
    /\ jobs'[id].st # jobs[id].st

\* C1: the master's step counter never decreases, and the only step that
\* changes it is the increment of line 675 in master_simulation_loop: no
\* handler of a register, report or step-command request and no worker
\* changes it.
C1_StepChangedOnlyByLoop ==
    [][simulation_step' # simulation_step =>
         /\ pc = "l675"
         /\ pc' = "l680"
         /\ simulation_step' > simulation_step]_vars

\* C2: every cycle increases the step counter by exactly 1, and the step
\* number of a cycle is the step number of the cycle before it plus 1, so
\* the step numbers of consecutive cycles are strictly increasing, whatever
\* became of the step calls of the cycle before.
C2_CycleStepsIncreaseByOne ==
    [][/\ (pc = "l675" /\ pc' = "l680" => simulation_step' = simulation_step + 1)
       /\ (pc = "l680" /\ pc' = "l681" => cycle'.step = cycle.step + 1)]_vars

C4_AcceptedIffRegisteredId ==
    [][\A id \in DOMAIN jobs :
         (jobs[id].st = "l620" /\ HandlerSteps(id)) =>
            /\ IF /\ ZoneOf(jobs[id].w) \in DOMAIN registered_workers
                  /\ registered_workers[ZoneOf(jobs[id].w)].id = jobs[id].w
                 THEN jobs'[id].st = "l621"
                 ELSE jobs'[id].st = "r404"
            /\ UNCHANGED masterData]_vars

\* a report was answered 404 and its zone is registered to another id
C4_Witness ==
    \E id \in DOMAIN jobs :
        /\ jobs[id].st = "r404"
        /\ ZoneOf(jobs[id].w) \in DOMAIN registered_workers
        /\ registered_workers[ZoneOf(jobs[id].w)].id # jobs[id].w
        /\ \E other \in DOMAIN jobs : jobs[other].st = "r200"

\* C5: while a zone is registered to an id, no step of the handler of a
\* report that carries another id changes the zone's record or the zone's
\* entry of full_simulation_grid_data.
C5_StaleReportChangesNothing ==
    [][\A id \in DOMAIN jobs :
         (/\ HandlerSteps(id)
          /\ ZoneOf(jobs[id].w) \in DOMAIN registered_workers
          /\ registered_workers[ZoneOf(jobs[id].w)].id # jobs[id].w) =>
            /\ registered_workers' = registered_workers
            /\ full_simulation_grid_data' = full_simulation_grid_data]_vars

\* a register request of worker process w is handled in this step
Registers(w) == wstate'[w] # wstate[w] \/ lost_acks'[w] # lost_acks[w]

\* C6: the registry holds exactly one record per zone that was registered,
\* with the URL and the id of the zone's latest registration, and its
\* number of records is the number of distinct zones registered; handling
\* the request that was the zone's latest once more leaves the registry as
\* it is.
C6_OneRecordPerZone ==
    /\ [](/\ DOMAIN registered_workers = DOMAIN latest_registration
          /\ Len(registered_keys) = Cardinality(DOMAIN latest_registration)
          /\ {registered_keys[i] : i \in 1 .. Len(registered_keys)} =
                DOMAIN latest_registration
          /\ \A z \in DOMAIN registered_workers :
                /\ registered_workers[z].url = latest_registration[z][1]
                /\ registered_workers[z].id = latest_registration[z][2])
    /\ [][\A w \in Workers :
            (/\ Registers(w)
             /\ ZoneOf(w) \in DOMAIN latest_registration
             /\ latest_registration[ZoneOf(w)] = <<UrlOf(w), w>>) =>
               /\ registered_workers' = registered_workers
               /\ registered_keys' = registered_keys]_vars

\* four zones are registered, one of them twice by two processes, and one
\* process has sent its request twice
C6_Witness ==
    /\ wstate["w1"] = "active"
    /\ wstate["w2"] = "active"
    /\ Cardinality(DOMAIN registered_workers) = 4
    /\ \E w \in Workers :
          /\ lost_acks[w] = 1
          /\ wstate[w] = "active"
          /\ registered_workers[ZoneOf(w)].id = w

C8_NoWorkersNoCycles ==
    aborted =>
        /\ simulation_step = 0
        /\ graph_data_history = <<>>
        /\ appended = <<>>
        /\ cycle = NoCycle
        /\ \A id \in DOMAIN jobs : jobs[id].w \notin Workers
        /\ ~simulation_active

\* C9: nothing that happens in a cycle ends the loop thread: when the
\* fan-out of a cycle is over, every zone of the cycle's snapshot was sent
\* its command, whichever calls failed, and the thread goes on to the sum,
\* the append and the next test of the loop.
C9_FailuresAreNotFatal ==
    /\ pc # "crashed"
    /\ pc \in {"l694", "l694_next", "l696"} => cycle.commanded_zones = cycle.snapshot

\* C10: the total of the sample appended at line 697 is the sum of the
\* car_count of every record the registry holds when it is appended.
C10_SampleIsSumAtAppend ==
    [][Len(appended') > Len(appended) =>
         appended'[Len(appended')][2] = TotalOf(registered_workers)]_vars

\* the counts the registered workers reported for their latest step
RECURSIVE ReportedCounts(_)
ReportedCounts(zs) ==
    IF zs = {} THEN 0
    ELSE LET z == CHOOSE x \in zs : TRUE
         IN worker_vehicles[registered_workers[z].id] + ReportedCounts(zs \ {z})

\* C11: when the workers registered before the first cycle, all of
\* distinct zones, answer every command and have every report accepted,
\* then after k cycles the step counter is k, the registry holds the n
\* workers that registered, the history holds min(k, 100) samples, and the
\* sample of step k carries the sum of the counts the workers reported for
\* step k.
C11_AfterKGoodCycles ==
    pc = "l674" =>
        LET k == Len(appended) IN
        /\ simulation_step = k
        /\ Len(registered_keys) = Cardinality({w \in Workers : wstate[w] = "active"})
        /\ Len(graph_data_history) = Min(k, 100)
        /\ k >= 1 =>
              /\ \A z \in DOMAIN registered_workers :
                    worker_step[registered_workers[z].id] = k
              /\ graph_data_history[Len(graph_data_history)] =
                    <<k, ReportedCounts(DOMAIN registered_workers)>>

\* four zones, five cycles: step 5, four workers, five samples
C11_Witness ==
    /\ pc = "l674"
    /\ simulation_step = 5
    /\ Len(registered_keys) = 4
    /\ Len(graph_data_history) = 5
    /\ graph_data_history[5][2] > 4 * MIN_CARS

\* the tick whose data the record of zone z holds, and its number of cars
TickOf(z) == registered_workers[z].current_zone_data.traffic_light
CarsOf(z) == registered_workers[z].current_zone_data.vehicles

\* C12: when the step call to worker B times out in cycle c only and no
\* report of B for c arrives, the total recorded for c is made of B's count
\* of its report for c - 1 and the other worker's count for c, and the
\* total recorded for c + 1 is made of the counts both reported for c + 1.
C12_StaleCountStaysInTotal ==
    (pc = "l674" /\ ZoneOf(StaleWorker) \in DOMAIN registered_workers) =>
        /\ Len(appended) = StaleStep =>
              /\ cycle.failed = {ZoneOf(StaleWorker)}
              /\ TickOf("East") = <<StaleWorker, StaleStep - 1>>
              /\ TickOf("South") = <<"w3", StaleStep>>
              /\ appended[StaleStep] = <<StaleStep, CarsOf("East") + CarsOf("South")>>
        /\ Len(appended) = StaleStep + 1 =>
              /\ cycle.failed = {}
              /\ TickOf("East") = <<StaleWorker, StaleStep + 1>>
              /\ TickOf("South") = <<"w3", StaleStep + 1>>
              /\ appended[StaleStep + 1] =
                    <<StaleStep + 1, CarsOf("East") + CarsOf("South")>>

\* the cycle after the timeout is over, the worker has ticked three times
\* and the total of the cycle of the timeout is not the total of the next
C12_Witness ==
    /\ pc = "l674"
    /\ Len(appended) = StaleStep + 1
    /\ ZoneOf(StaleWorker) \in DOMAIN registered_workers
    /\ StaleJob \notin DOMAIN jobs
    /\ appended[StaleStep][2] # appended[StaleStep + 1][2]

Last(seq) == seq[Len(seq)]

\* C13: of the elements a subscriber has received, the first is tagged
\* initial_data and every later one update, whenever it attached and
\* whatever the other subscriber has received.
C13_FirstElementIsInitialData ==
    \A s \in Subs :
        \A i \in 1 .. Len(sub[s].received) :
            sub[s].received[i].type = IF i = 1 THEN "initial_data" ELSE "update"

\* the second subscriber attached after a cycle and after the first one had
\* received updates, and has received its first element
C13_Witness ==
    /\ Len(sub["s1"].received) >= 2
    /\ Len(sub["s2"].received) = 1
    /\ sub["s2"].received[1].step >= 1
    /\ sub["s2"].received[1].type = "initial_data"

\* C14: after its first element a generator yields only a step greater
\* than the step of the element before, so the steps of the elements a
\* subscriber has received are strictly increasing, also when the master's
\* step counter goes down.
C14_DeliveredStepsIncrease ==
    /\ \A i \in 1 .. Len(sub["s1"].received) - 1 :
          sub["s1"].received[i].step < sub["s1"].received[i + 1].step
    /\ (sub["s1"].pc = "l577" /\ sub["s1"].received # <<>>) =>
          sub["s1"].payload.step > Last(sub["s1"].received).step

\* two elements were received, the step counter went back after that, and
\* the generator has passed without sending
C14_Witness ==
    /\ Len(sub["s1"].received) >= 2
    /\ simulation_step < Last(sub["s1"].received).step
    /\ sub["s1"].pc = "l579"
    /\ foreign_requests = 1

\* the places of a generator inside the with statement of line 543
HoldsGraphLock == {"l543_grid", "l544", "l550"}
HoldsGridLock == {"l544", "l550"}

\* C15: a generator holds a lock only inside the with statement, never
\* while it is blocked at the yield, asleep, closed or not started; and a
\* generator that holds graph_data_lock and waits for the other lock waits
\* for a generator that is inside its with statement and waits for nothing.
C15_NoLockHeldWhileBlocked ==
    \A s \in Subs :
        /\ graph_data_lock = s <=> sub[s].pc \in HoldsGraphLock
        /\ full_simulation_grid_data_lock = s <=> sub[s].pc \in HoldsGridLock
        /\ sub[s].pc = "l543_grid" =>
              \/ full_simulation_grid_data_lock = "free"
              \/ sub[full_simulation_grid_data_lock].pc \in HoldsGridLock

\* one subscriber does not take its element; the loop has appended a
\* sample since and the other subscriber has received that step
C15_Witness ==
    /\ sub["s1"].pc = "l577"
    /\ sub["s1"].payload.step = 0
    /\ Len(appended) >= 1
    /\ sub["s2"].received # <<>>
    /\ Last(sub["s2"].received).step >= 1

\* C16: a record as a generator has copied it is the record as a
\* registration left it (count 0, last_seen of the registration) or as a
\* whole report left it (the count and the last_seen of a report), never
\* the count of a report with the last_seen of the registration.
C16_NoRecordSeenMidUpdate ==
    \A s \in Subs :
        \A z \in DOMAIN sub[s].details :
            sub[s].details[z].car_count = 0 <=> sub[s].details[z].last_seen[2] = 0

\* C17: from the test of line 620 to the last write of line 633 a report
\* handler is in one critical section: while it is between them and does
\* not step itself, no other thread changes the record of its zone or the
\* running total.
C17_HandlerIsOneCriticalSection ==
    [][\A id \in DOMAIN jobs :
         (/\ jobs[id].st \in {"l621", "l622", "l623", "l625", "l633"}
          /\ id \in DOMAIN jobs'
          /\ jobs'[id] = jobs[id]) =>
            /\ registered_workers'[ZoneOf(jobs[id].w)] =
                  registered_workers[ZoneOf(jobs[id].w)]
            /\ total_cars_in_sim' = total_cars_in_sim]_vars

\* a step of the registration loop of worker process w
Attempts(w) == wstate[w] = "registering" /\ (wstate'[w] # wstate[w] \/ retries'[w] # retries[w])

\* C18: a worker process leaves the registration loop once and does not
\* come back to it: by a successful attempt, after which (and only then)
\* it serves step commands, or after its tenth failed attempt, by exiting
\* without having served a command.  Every pass of the loop ends the loop
\* or leaves one attempt less of the ten, so the loop ends.
C18_RegistrationLoopEnds ==
    /\ [](\A w \in Workers :
            /\ retries[w] \in 0 .. 10
            /\ wstate[w] = "exited" <=> retries[w] = 0
            /\ wstate[w] \in {"down", "registering"} =>
                  (worker_step[w] = 0 /\ \A id \in DOMAIN jobs : jobs[id].w # w)
            /\ wstate[w] = "exited" =>
                  (worker_step[w] = 0 /\ \A id \in DOMAIN jobs : jobs[id].w # w))
    /\ [][\A w \in Workers :
            /\ wstate'[w] # wstate[w] =>
                  (wstate[w] = "registering" /\ wstate'[w] \in {"active", "exited"})
            /\ Attempts(w) =>
                  \/ wstate'[w] = "active" /\ retries'[w] = retries[w]
                  \/ wstate'[w] # "active" /\ retries'[w] = retries[w] - 1]_vars

\* one worker has exited after ten failed attempts, registered with the
\* master by the attempt whose answer was lost; the other serves a command
C18_Witness ==
    /\ wstate["w3"] = "exited"
    /\ "South" \in DOMAIN registered_workers
    /\ wstate["w4"] = "active"
    /\ retries["w4"] < 10
    /\ \E id \in DOMAIN jobs : jobs[id].w = "w4"

C20_VehicleStaysInRange ==
    /\ [](vehicle.direction # "none" => vehicle.pos \in (0 - 5) .. (200 + 5))
    /\ [][vehicle'.last = "moved" =>
            /\ vehicle'.direction = vehicle.direction
            /\ vehicle.direction \in {"E", "S"} =>
                  vehicle'.pos = IF vehicle.pos + 7 > 205 THEN 0 - 5 ELSE vehicle.pos + 7
            /\ vehicle.direction \in {"W", "N"} =>
                  vehicle'.pos = IF vehicle.pos - 7 < 0 - 5 THEN 205 ELSE vehicle.pos - 7]_vars

\* a vehicle going west has been moved past the edge to the opposite one
C20_Witness ==
    /\ vehicle.last = "moved"
    /\ vehicle.direction = "W"
    /\ vehicle.pos = 205

\* C24: a record of the registry is never deleted: the zones of the
\* registry only grow, and a worker whose step calls fail stays registered,
\* is sent the command of every later cycle, and its count as last reported
\* goes on being summed into the samples.
C24_RecordsAreNeverDeleted ==
    /\ [][\A z \in DOMAIN registered_workers : z \in DOMAIN registered_workers']_vars
    /\ [](pc = "l694" =>
            /\ cycle.snapshot = DOMAIN registered_workers
            /\ cycle.commanded_zones = cycle.snapshot
            /\ cycle.step > HistLive => cycle.failed = cycle.snapshot)
    /\ [][(Len(appended') > Len(appended) /\ simulation_step > HistLive) =>
             /\ DOMAIN registered_workers # {}
             /\ appended'[Len(appended')][2] = TotalOf(registered_workers)
             /\ \A z \in DOMAIN registered_workers :
                   registered_workers[z].car_count = CarsOf(z)]_vars

\* the call to the worker has failed in three cycles, and the worker is
\* commanded in the fourth with its reported count in the last sample
C24_Witness ==
    /\ pc = "l694"
    /\ cycle.step = HistLive + 3
    /\ cycle.failed = {"South"}
    /\ "South" \in DOMAIN registered_workers
    /\ CarsOf("South") >= MIN_CARS
    /\ appended[HistLive + 2] = <<HistLive + 2, CarsOf("South")>>

\* the worker and the step of the tick that produced a zone snapshot
ProducerOf(data) == data.traffic_light[1]
StepOf(data) == data.traffic_light[2]

\* C25: the snapshot the master holds for a zone is the one of the most
\* recent step its worker reported: when a snapshot of a worker is replaced
\* by another snapshot of the same worker, the step of the new one is not
\* less than the step of the old one, also when two reports of the worker
\* are in flight at once.
C25_SnapshotStepNeverGoesBack ==
    [][\A z \in DOMAIN full_simulation_grid_data :
         ProducerOf(full_simulation_grid_data'[z]) = ProducerOf(full_simulation_grid_data[z])
            => StepOf(full_simulation_grid_data'[z]) >= StepOf(full_simulation_grid_data[z])]_vars

\* C26: a registration handled while a cycle is in flight never ends the
\* loop thread; the zones commanded in a cycle are the zones the registry
\* held when the fan-out of line 680 began, so that a worker registered
\* later in the cycle gets no command of this step, and the fan-out of the
\* next cycle takes the registry as it then is.
C26_MidCycleRegistrationWaitsForNextCycle ==
    /\ [][pc' = "crashed" => pc = "crashed"]_vars
    /\ [](pc \in {"l681", "l688"} => cycle.commanded_zones \subseteq cycle.snapshot)
    /\ [](pc \in {"l694", "l694_next", "l696"} => cycle.commanded_zones = cycle.snapshot)
    /\ [][(pc = "l680" /\ pc' = "l681") =>
             /\ cycle'.snapshot = DOMAIN registered_workers
             /\ cycle'.step = simulation_step]_vars

\* C27: once the loop of line 674 has exited (the deadline has passed) and
\* line 706 has run, simulation_active is False and stays so, and neither
\* the step counter nor the history changes again.
C27_NothingChangesAfterTheLoop ==
    /\ []((pc = "done" /\ ~aborted) => ~simulation_active)
    /\ [][(pc = "done" /\ ~aborted) =>
             /\ pc' = "done"
             /\ simulation_step' = simulation_step
             /\ graph_data_history' = graph_data_history]_vars

\* the request kept under id is answered in this step
AnsweredNow(id) ==
    /\ id \in DOMAIN jobs'
    /\ jobs'[id].st \in {"r200", "r400", "r404"}
    /\ id \in DOMAIN jobs => jobs[id].st # jobs'[id].st

\* a required field of the body of a client's request is missing
MissingField(j) ==
    \/ j.zone \in {None, ""}
    \/ j.w \in {None, ""}
    \/ j.request = "register" /\ j.url = NoUrl
    \/ j.request = "report" /\ ~j.has_count

\* C30: a register request or a report with a missing field is answered
\* 400, a report for a zone the registry does not hold or with another
\* worker_id than the zone's record is answered 404, and the step that
\* answers 400 or 404 changes neither the registry, nor the zone snapshots,
\* nor the running total, nor the step counter, nor the history.
C30_RejectedRequestChangesNothing ==
    [][\A id \in DOMAIN jobs' :
         /\ (id[1] = "client" /\ id \notin DOMAIN jobs /\ MissingField(jobs'[id]))
               => jobs'[id].st = "r400"
         /\ (/\ id \in DOMAIN jobs
             /\ jobs[id].st = "l620"
             /\ jobs'[id].st # "l620"
             /\ \/ ZoneOf(jobs[id].w) \notin DOMAIN registered_workers
                \/ registered_workers[ZoneOf(jobs[id].w)].id # jobs[id].w)
               => jobs'[id].st = "r404"
         /\ (AnsweredNow(id) /\ jobs'[id].st \in {"r400", "r404"})
               => UNCHANGED <<registered_workers, registered_keys,
                              full_simulation_grid_data, total_cars_in_sim,
                              simulation_step, graph_data_history>>]_vars

\* a worker is registered and has a report stored; one request was answered
\* 400 and one 404
C30_Witness ==
    /\ "South" \in DOMAIN registered_workers
    /\ \E a \in DOMAIN jobs, b \in DOMAIN jobs :
          /\ jobs[a].st = "r400"
          /\ jobs[b].st = "r404"
          /\ jobs[b].w = Foreign
          /\ registered_workers["South"].id = "w3"

\* C21: the length of a worker's list of vehicles is at most
\* MAX_CARS_PER_ZONE from the start on, and a vehicle is appended only to a
\* list shorter than MAX_CARS_PER_ZONE, one at a time.
C21_CountWithinCapacity ==
    /\ [](worker_vehicles[TheWorker] <= MAX_CARS_PER_ZONE)
    /\ [][worker_vehicles'[TheWorker] > worker_vehicles[TheWorker] =>
             /\ worker_vehicles[TheWorker] < MAX_CARS_PER_ZONE
             /\ worker_vehicles'[TheWorker] = worker_vehicles[TheWorker] + 1]_vars

\* C22: a vehicle is removed only from a list longer than the floor of 20,
\* one at a time, so that the length of a worker's list of vehicles, at
\* least 20 at the start, is never below 20.
C22_CountNeverBelowFloor ==
    /\ [](worker_vehicles[TheWorker] >= MIN_CARS)
    /\ [][worker_vehicles'[TheWorker] < worker_vehicles[TheWorker] =>
             /\ worker_vehicles[TheWorker] > MIN_CARS
             /\ worker_vehicles'[TheWorker] = worker_vehicles[TheWorker] - 1]_vars

\* C23: the ids of the vehicles in a worker's list are pairwise distinct
\* after every step of every handler.
C23_VehicleIdsAreDistinct ==
    worker_detail.kept =>
        \A i \in 1 .. Len(worker_detail.ids), j \in 1 .. Len(worker_detail.ids) :
            i # j => worker_detail.ids[i] # worker_detail.ids[j]

\* C28: the car_count of the report a handler posts is the number of
\* vehicle states the report carries, and between its start and its report
\* a handler appends at most one vehicle and then removes at most one.
C28_ReportCountMatchesStates ==
    /\ [](\A id \in DOMAIN jobs :
            jobs[id].st \in {"lost", "l620"} => jobs[id].n = jobs[id].states)
    /\ [][\A id \in DOMAIN jobs :
             (worker_vehicles' # worker_vehicles /\ id \in DOMAIN jobs'
                /\ jobs'[id].st # jobs[id].st) =>
                   \/ jobs[id].st = "l751" /\ jobs'[id].st = "l754"
                   \/ jobs[id].st = "l756_pop" /\ jobs'[id].st = "l759"]_vars

\* the handler of job id goes from the statement at 'from' to the one at 'to'
Goes(id, from, to) ==
    /\ id \in DOMAIN jobs
    /\ id \in DOMAIN jobs'
    /\ jobs[id].st = from
    /\ jobs'[id].st = to

\* C29: a tick toggles the light between red and green and resets
\* last_change_time if and only if, when it looks (line 124), more than 2
\* seconds have passed since last_change_time; otherwise it leaves both as
\* they are.  A tick toggles at most once, and nothing but the update of a
\* tick changes the light.
C29_LightTogglesWhenDue ==
    [][/\ \A id \in DOMAIN jobs :
            /\ (jobs[id].st = "l734" /\ id \in DOMAIN jobs' /\ jobs'[id].st # "l734") =>
                  /\ worker_detail'.light = worker_detail.light
                  /\ IF worker_detail.now - worker_detail.light.last_change_time > 2
                        THEN jobs'[id].st = "l125"
                        ELSE jobs'[id].st = "l737"
            /\ (id \in DOMAIN jobs' /\ jobs'[id].st = "l125") =>
                  jobs[id].st \in {"l734", "l125"}
       /\ worker_detail'.light.state # worker_detail.light.state =>
            /\ {worker_detail.light.state, worker_detail'.light.state} = {"red", "green"}
            /\ \E id \in DOMAIN jobs : Goes(id, "l125", "l126")
       /\ worker_detail'.light.last_change_time # worker_detail.light.last_change_time =>
            /\ worker_detail'.light.last_change_time = worker_detail.now
            /\ \E id \in DOMAIN jobs : Goes(id, "l126", "l737")]_vars

\* of the ticks of steps 1 and 2 one has toggled the light, when 3 seconds
\* had passed, and the other has left it as it was
C29_Witness ==
    /\ worker_detail.light = [state |-> "green", last_change_time |-> 3]
    /\ worker_detail.now = 3
    /\ DOMAIN jobs = {<<TheWorker, 2>>}
    /\ jobs[<<TheWorker, 2>>].st = "l741"

----------------------------------------------------------------------------
(* The elements of the stream *)

\* the elements a generator has yielded: those its subscriber has received
\* and the one it is blocked on
Emitted(s) ==
    IF sub[s].pc = "l577" THEN Append(sub[s].received, sub[s].payload)
    ELSE sub[s].received

\* the report whose count and time of arrival the copy of a record shows is
\* the report whose snapshot the zone map shows
SameReport(e, z) ==
    IF e.registered_workers[z].last_seen[2] = 0
      THEN z \notin DOMAIN e.zone_data
      ELSE /\ z \in DOMAIN e.zone_data
           /\ e.zone_data[z].traffic_light = e.registered_workers[z].last_seen
           /\ e.zone_data[z].vehicles = e.registered_workers[z].car_count

\* C31: in every element a generator yields, the total is the sum of the
\* counts of the element's own registry details, the number of workers is
\* the number of entries of the details, the zone map has no zone the
\* details lack, and for every zone the details and the zone map show the
\* same report or both show none.
C31_ElementIsConsistent ==
    \A i \in 1 .. Len(Emitted("s1")) :
        LET e == Emitted("s1")[i]
        IN /\ e.total_cars = TotalOf(e.registered_workers)
           /\ e.num_workers = Cardinality(DOMAIN e.registered_workers)
           /\ DOMAIN e.zone_data \subseteq DOMAIN e.registered_workers
           /\ \A z \in DOMAIN e.registered_workers : SameReport(e, z)

\* C36: the history of every element a generator yields has no sample of a
\* step greater than the step of the element.
C36_HistoryNotAheadOfStep ==
    \A i \in 1 .. Len(Emitted("s1")) :
        LET e == Emitted("s1")[i]
        IN \A k \in 1 .. Len(e.history) : e.history[k][1] <= e.step

\* the generator is asleep between two passes, and the loop thread has
\* returned: simulation_step and the history change no more
AsleepAfterTheLoop(s) == pc = "done" /\ sub[s].pc = "l579"

\* the next pass of the generator yields an element
NextPassSends(s) == ShouldSend(simulation_step, sub[s].last_step_sent)

\* C37: every sample that was appended is delivered in the end.  When the
\* loop has returned and the generator of the attached subscriber is
\* between two passes, a sample that no element yielded so far carries is
\* carried by the element of the next pass: the next pass is not skipped.
C37_EverySampleIsDelivered ==
    (/\ AsleepAfterTheLoop("s1")
     /\ \E k \in 1 .. Len(appended) :
           \A i \in 1 .. Len(Emitted("s1")) :
              \A j \in 1 .. Len(Emitted("s1")[i].history) :
                 Emitted("s1")[i].history[j] # appended[k])
       => NextPassSends("s1")

\* C38: when the loop has stopped, the attached subscriber is told.  When
\* the loop has returned (deadline, or no worker at the end of the wait)
\* and the generator is between two passes and has yielded no element of
\* status Inactive, the next pass is not skipped.
C38_StopIsDelivered ==
    (/\ AsleepAfterTheLoop("s1")
     /\ \A i \in 1 .. Len(Emitted("s1")) : Emitted("s1")[i].status # "Inactive")
       => NextPassSends("s1")

----------------------------------------------------------------------------
(* The registry between two reports *)

\* a report is in flight: sent and not yet answered
InFlight(id) ==
    jobs[id].st \in {"l620", "l621", "l622", "l623", "l625", "l633", "l636"}

NoReportInFlight == \A id \in DOMAIN jobs : ~InFlight(id)

\* C33: whenever no report is in flight, the running total
\* total_cars_in_sim is the sum of the car_count of all records.
C33_RunningTotalIsTheSum ==
    NoReportInFlight => total_cars_in_sim = TotalOf(registered_workers)

\* C34: whenever no report is in flight, the record of every registered
\* zone agrees with the zone map: its car_count is the number of vehicles
\* of the zone's entry and its current_zone_data is that entry; a zone
\* without an entry has the record of a registration.
C34_RecordAgreesWithZoneMap ==
    NoReportInFlight =>
        \A z \in DOMAIN registered_workers :
            IF z \in DOMAIN full_simulation_grid_data
              THEN /\ registered_workers[z].car_count =
                         full_simulation_grid_data[z].vehicles
                   /\ registered_workers[z].current_zone_data =
                         full_simulation_grid_data[z]
              ELSE /\ registered_workers[z].car_count = 0
                   /\ registered_workers[z].current_zone_data = EmptyZoneData

----------------------------------------------------------------------------
(* The history and the step counter *)

\* C35: in every state the steps of the samples of the history go up by
\* one from sample to sample, the step of the newest sample is the step
\* counter or the step counter minus 1, and the history is the samples of
\* the last min(c, 100) completed cycles, one for each, where c is the
\* number of cycles that have appended their sample.
C35_HistoryFollowsTheStepCounter ==
    LET c == Len(appended)
        n == Len(graph_data_history)
    IN /\ \A i \in 1 .. n - 1 :
             graph_data_history[i + 1][1] = graph_data_history[i][1] + 1
       /\ n > 0 => /\ graph_data_history[n][1] <= simulation_step
                   /\ graph_data_history[n][1] >= simulation_step - 1
       /\ graph_data_history = LastOf(appended, Min(c, HISTORY_MAXLEN))

----------------------------------------------------------------------------
(* The two locks *)

\* the contexts that are waiting for a lock: a generator at either lock of
\* line 543, a report handler at line 636, the loop thread at line 696
WaitsForGraphLock(s) == sub[s].pc = "l543" /\ graph_data_lock # "free"
WaitsForGridLock(s) == sub[s].pc = "l543_grid" /\ full_simulation_grid_data_lock # "free"
HandlerWaits(id) == jobs[id].st = "l636" /\ full_simulation_grid_data_lock # "free"
LoopWaits == pc = "l696" /\ graph_data_lock # "free"

\* C39: there is no cyclic wait on graph_data_lock and
\* full_simulation_grid_data_lock.  A lock is held over more than one
\* statement by a generator only; full_simulation_grid_data_lock is held
\* only by the holder of graph_data_lock (the one nested acquisition, in
\* that order); whoever holds a lock is inside its with statement and
\* never finds the second lock taken; so every context that waits for a
\* lock waits for a generator that is running and will release it.
C39_NoCyclicWait ==
    /\ graph_data_lock \in Subs \cup {"free"}
    /\ full_simulation_grid_data_lock \in Subs \cup {"free"}
    /\ full_simulation_grid_data_lock # "free" =>
          graph_data_lock = full_simulation_grid_data_lock
    /\ \A s \in Subs :
          /\ graph_data_lock = s => sub[s].pc \in HoldsGraphLock
          /\ full_simulation_grid_data_lock = s => sub[s].pc \in HoldsGridLock
          /\ WaitsForGraphLock(s) => graph_data_lock # s
          /\ ~WaitsForGridLock(s)
    /\ \A id \in DOMAIN jobs :
          HandlerWaits(id) => sub[full_simulation_grid_data_lock].pc \in HoldsGridLock
    /\ LoopWaits => sub[graph_data_lock].pc \in HoldsGraphLock

\* one generator holds both locks while the other generator waits for the
\* first lock and a report handler waits at line 636
C39_Witness ==
    /\ full_simulation_grid_data_lock = "s1"
    /\ WaitsForGraphLock("s2")
    /\ \E id \in DOMAIN jobs : HandlerWaits(id)

----------------------------------------------------------------------------
(* One tick at a time *)

\* the handler is between line 730 and line 759: it is yet to store its
\* step or to read or change the light or worker_vehicles
TickLines == {"l730", "l734", "l125", "l126", "l737", "l741", "l750", "l751",
              "l754", "l756", "l756_pop", "l759"}

TicksInProgress == {id \in DOMAIN jobs : jobs[id].st \in TickLines}

\* C40: on one worker at most one tick is in progress at any time, and the
\* worker's simulation_step never goes down.
C40_OneTickAtATime ==
    /\ [](Cardinality(TicksInProgress) <= 1)
    /\ [][worker_step'[TheWorker] >= worker_step[TheWorker]]_vars

----------------------------------------------------------------------------
(* The tick as a function of the random source *)

TwinList(w) == twin.proc[w].worker_vehicles

====
